---- MODULE Spec2Model ----
(***************************************************************************)
(* Model of the blog worker (src/src/index copy.ts, second version of the  *)
(* file, lines 1197-3218): the posts and comments tables, the page store   *)
(* STATIC_PAGES keyed by slug, and the request handlers with their         *)
(* background cascades (executionCtx.waitUntil).  A handler is a sequence  *)
(* of steps, one per awaited store operation together with the synchronous *)
(* code that follows it; the queries of one Promise.all are answered in    *)
(* the order in which they are issued.  A request occupies a slot of reqs  *)
(* from its first step until its cascade has ended.                        *)
(*                                                                         *)
(* The database has the schema of migrations/init.sql or that schema with  *)
(* the column posts.feature_image and the table post_images, which the     *)
(* statements of the create and update handlers name.                      *)
(*                                                                         *)
(* A stored page is the projection of the generated HTML onto the fields   *)
(* that vary: owner, title, prev link, next link, approved comments.       *)
(* Time is counted in seconds.                                             *)
(***************************************************************************)
EXTENDS Integers, Sequences, FiniteSets, TLC

VARIABLES posts, rowids, nextId, pages, comments, nextCid, blacklist, views, settings, schema, now, reqs, ops

vars == <<posts, rowids, nextId, pages, comments, nextCid, blacklist, views, settings, schema, now, reqs, ops>>

---------------------------------------------------------------------------
(* Bounds of the model *)

\* number of post ids ever handed out by crypto.randomUUID()
MaxPosts == 3
\* last instant of the clock
MaxTime == 3
\* number of comment ids ever handed out
MaxComments == 5
\* number of distinct image URLs of a post (uniqueUrls.length)
MaxImages == 1

\* request slots: one request at a time uses slot 1 only
ReqIds == {1, 2}

\* the slot of the requests to the public route GET /api/posts/:postId/views
ViewerId == 3

---------------------------------------------------------------------------
(* Titles and slugs: sequences of one-character strings *)

NoLink == <<>>

\* href="/blog/${slug}": the link to the page of the post with that slug
Href(slug) == <<"/blog/">> \o slug

Lower(ch) ==
    CASE ch = "A" -> "a"
      [] ch = "B" -> "b"
      [] OTHER -> ch

IsSpace(ch) == ch = " "

IsSlugChar(ch) == ch \in {"a", "b", "0", "1", "2", "3", "-", "_"}

RECURSIVE MapLower(_)
MapLower(s) ==
    IF s = <<>> THEN <<>> ELSE <<Lower(Head(s))>> \o MapLower(Tail(s))

\* .replace(/[\s ]+/g, '-')
RECURSIVE SpacesToHyphen(_)
SpacesToHyphen(s) ==
    IF s = <<>> THEN <<>>
    ELSE IF IsSpace(Head(s))
         THEN IF Len(s) > 1 /\ IsSpace(s[2])
              THEN SpacesToHyphen(Tail(s))
              ELSE <<"-">> \o SpacesToHyphen(Tail(s))
         ELSE <<Head(s)>> \o SpacesToHyphen(Tail(s))

\* .replace(/[^a-z0-9一-龥-_]/g, '')
StripChars(s) == SelectSeq(s, IsSlugChar)

\* .replace(/-{2,}/g, '-')
RECURSIVE CollapseHyphens(_)
CollapseHyphens(s) ==
    IF s = <<>> THEN <<>>
    ELSE IF Head(s) = "-" /\ Len(s) > 1 /\ s[2] = "-"
         THEN CollapseHyphens(Tail(s))
         ELSE <<Head(s)>> \o CollapseHyphens(Tail(s))

\* .replace(/^-|-$/g, '')
TrimHyphens(s) ==
    LET a == IF s # <<>> /\ Head(s) = "-" THEN Tail(s) ELSE s
    IN  IF a # <<>> /\ a[Len(a)] = "-" THEN SubSeq(a, 1, Len(a) - 1) ELSE a

PostWord == <<"p", "o", "s", "t">>

BaseSlug(title) ==
    LET s == TrimHyphens(CollapseHyphens(StripChars(SpacesToHyphen(MapLower(title)))))
    IN  IF s = <<>> THEN PostWord ELSE s

DigitChars == <<"0", "1", "2", "3", "4", "5", "6", "7", "8", "9">>

RECURSIVE Decimal(_)
Decimal(n) ==
    IF n < 10 THEN <<DigitChars[n + 1]>>
    ELSE Decimal(n \div 10) \o <<DigitChars[(n % 10) + 1]>>

\* a candidate whose number advances with every second iteration of the loop
SuffixedTwice(base, suffix) == base \o <<"-">> \o Decimal((suffix + 1) \div 2)

\* `${baseSlug}-${suffix}`
Suffixed(base, suffix) == base \o <<"-">> \o Decimal(suffix)

---------------------------------------------------------------------------
(* The posts table *)

Live == DOMAIN posts

\* the rowid SQLite gives a row inserted into posts: one more than the
\* largest rowid in the table
NextRowid ==
    IF Live = {} THEN 1
    ELSE 1 + (CHOOSE m \in {rowids[i] : i \in Live} : \A i \in Live : rowids[i] <= m)

NoPost == [id |-> 0]

\* SELECT * FROM posts WHERE id = ?
PostById(i) == IF i \in Live THEN posts[i] ELSE NoPost

\* SELECT id FROM posts WHERE slug = ?, whatever the post that asks
SlugHeld(slug, excludeId) ==
    \E i \in Live : posts[i].slug = slug

\* SELECT id FROM posts WHERE slug = ? AND id != ?
SlugHeldByOther(slug, excludeId) ==
    \E i \in Live : posts[i].slug = slug /\ i # excludeId

\* the UNIQUE constraint of posts.slug, checked by INSERT and UPDATE
\* a posts table without the UNIQUE constraint on slug
SlugUnconstrained(slug, selfId) == TRUE

SlugConstraintOk(slug, selfId) ==
    \A i \in Live : i # selfId => posts[i].slug # slug

\* rows with published_at < t (is_published = true when pubOnly)
Earlier(t, pubOnly) ==
    {i \in Live : posts[i].published_at < t /\ (pubOnly => posts[i].is_published)}

Later(t, pubOnly) ==
    {i \in Live : posts[i].published_at > t /\ (pubOnly => posts[i].is_published)}

\* ... WHERE published_at < ? ORDER BY published_at DESC LIMIT 1: the rows the
\* query may return (more than one only when timestamps tie)
PrevRows(t, pubOnly) ==
    {i \in Earlier(t, pubOnly) :
        \A j \in Earlier(t, pubOnly) : posts[j].published_at <= posts[i].published_at}

\* ... WHERE published_at > ? ORDER BY published_at ASC LIMIT 1
NextRows(t, pubOnly) ==
    {i \in Later(t, pubOnly) :
        \A j \in Later(t, pubOnly) : posts[j].published_at >= posts[i].published_at}

\* first() of a query: one of its rows, or no row
FirstOf(rows) == IF rows = {} THEN {0} ELSE rows

---------------------------------------------------------------------------
(* generateAndStoreStaticPage *)

\* the comments of a post whatever their approval flag
AllComments(postId) ==
    {c \in DOMAIN comments : comments[c].post_id = postId}

\* SELECT id, ... FROM comments WHERE post_id = ? AND is_approved = 1
ApprovedComments(postId) ==
    {c \in DOMAIN comments :
        comments[c].post_id = postId /\ comments[c].is_approved = 1}

\* SELECT COUNT(*) as count FROM comments WHERE post_id = ? AND is_approved = 1
ApprovedCount(postId) ==
    Cardinality({c \in DOMAIN comments :
                    comments[c].post_id = postId /\ comments[c].is_approved = 1})

\* SELECT view_count FROM post_views WHERE post_id = ?, viewsResult?.view_count || 0
ViewCount(postId) == IF postId \in DOMAIN views THEN views[postId] ELSE 0

\* blogTitleResult?.value || (the default title)
DefaultTitle == "default-title"

BlogTitle ==
    IF "blog_title" \in DOMAIN settings /\ settings["blog_title"] # ""
    THEN settings["blog_title"] ELSE DefaultTitle

\* seconds in a year
YearLength == 31536000

\* new Date().getFullYear(), counted from the first year of the clock
YearOf(t) == t \div YearLength

\* the renderer's prev query without its is_published condition
RenderPrevAnyRow(t) == PrevRows(t, FALSE)

\* the neighbour queries of the renderer
RenderPrev(t) == PrevRows(t, TRUE)

RenderNext(t) == NextRows(t, TRUE)

\* prevPost ? `<a href="/blog/${prevPost.slug}" ...>` : (no link): the link
\* to the row a neighbour query returned, whatever its slug
LinkOf(i) == IF i = 0 THEN NoLink ELSE Href(posts[i].slug)

\* a page of which nothing has been read yet
EmptyDoc ==
    [id |-> 0, title |-> <<>>, prev |-> NoLink, next |-> NoLink, shown |-> {},
     count |-> 0, viewed |-> 0, blog_title |-> "", year |-> 0]

\* number of the queries of the Promise.all of generateAndStoreStaticPage
ReadCount == 7

\* The k-th query of the Promise.all, run for post object p on the database
\* as it is now: prev, next, subtitle (not part of a page here), blog_title,
\* view count, comment count, comment list.  The HTML is built from the
\* post object and the year as soon as the last result is in.
ReadStep(doc, p, k) ==
    CASE k = 1 -> {[doc EXCEPT !.prev = LinkOf(a)] :
                      a \in FirstOf(RenderPrev(p.published_at))}
      [] k = 2 -> {[doc EXCEPT !.next = LinkOf(b)] :
                      b \in FirstOf(RenderNext(p.published_at))}
      [] k = 3 -> {doc}
      [] k = 4 -> {[doc EXCEPT !.blog_title = BlogTitle]}
      [] k = 5 -> {[doc EXCEPT !.viewed = ViewCount(p.id)]}
      [] k = 6 -> {[doc EXCEPT !.count = ApprovedCount(p.id)]}
      [] OTHER -> {[doc EXCEPT !.shown = ApprovedComments(p.id),
                               !.id = p.id, !.title = p.title,
                               !.year = YearOf(now)]}

\* the documents after the queries k..ReadCount, all run on one database
RECURSIVE ReadFrom(_, _, _)
ReadFrom(docs, p, k) ==
    IF k > ReadCount THEN docs
    ELSE ReadFrom(UNION {ReadStep(d, p, k) : d \in docs}, p, k + 1)

\* the documents the renderer produces for post object p when nothing
\* changes the database between its queries
RenderPages(p) == ReadFrom({EmptyDoc}, p, 1)

\* STATIC_PAGES.put(key, doc)
Put(pgs, key, doc) ==
    [k \in (DOMAIN pgs) \cup {key} |-> IF k = key THEN doc ELSE pgs[k]]

\* STATIC_PAGES.delete(key)
Remove(pgs, key) == [k \in (DOMAIN pgs) \ {key} |-> pgs[k]]

\* the page stores that generating the post objects of ps, in order, may leave
RECURSIVE GenAll(_, _)
GenAll(pgs, ps) ==
    IF ps = <<>> THEN {pgs}
    ELSE UNION {GenAll(Put(pgs, Head(ps).slug, doc), Tail(ps)) :
                    doc \in RenderPages(Head(ps))}

---------------------------------------------------------------------------
(* Requests *)

\* A request slot.  snap: the post object the handler holds; orig: the row
\* an update read first; upd: the updates object (or the request's data);
\* nbrs: the neighbours read before the write; cand, suffix: the variables
\* slug and suffix of the slug loop; rows: the post objects the running stage
\* has still to generate, the first one in progress with rd of its queries
\* answered into doc; ids: the ids the stage has still to read again; sel:
\* the queries of the stage answered so far; regen: the posts whose page the
\* request has stored; at, left: where a throwing put ended the cascade; imgs:
\* the image URLs updatePostImageRelations has still to insert.
Idle ==
    [kind |-> "none", pc |-> "idle", id |-> 0, snap |-> NoPost, orig |-> NoPost,
     upd |-> <<>>, nbrs |-> <<>>, status |-> 0, regen |-> {}, at |-> "", left |-> {},
     cand |-> <<>>, suffix |-> 0, rows |-> <<>>, ids |-> <<>>, sel |-> 0,
     rd |-> 0, doc |-> EmptyDoc, imgs |-> 0]

Free(r) == reqs[r].pc \in {"idle", "done", "aborted"}

Quiet == \A r \in ReqIds : Free(r)

\* slot r has served no request yet
Fresh(r) == reqs[r].pc = "idle"

\* an early return that would still hand a regeneration to waitUntil
RejectedDispatching(kind, id, status) ==
    [Idle EXCEPT !.kind = kind, !.pc = "gen_post", !.id = id, !.status = status]

\* a request that ends with its response and dispatches nothing
Rejected(kind, id, status) ==
    [Idle EXCEPT !.kind = kind, !.pc = "done", !.id = id, !.status = status]

\* updates.slug = ...
WithSlug(upd, slug) ==
    [f \in (DOMAIN upd) \cup {"slug"} |-> IF f = "slug" THEN slug ELSE upd[f]]

\* {...a, ...b}
Merge(a, b) == [f \in DOMAIN a |-> IF f \in DOMAIN b THEN b[f] ELSE a[f]]

\* the post objects of the ids of s that are rows of posts, in order
RECURSIVE RowsOf(_)
RowsOf(s) ==
    IF s = <<>> THEN <<>>
    ELSE (IF Head(s) \in Live THEN <<posts[Head(s)]>> ELSE <<>>) \o RowsOf(Tail(s))

\* the ids of s other than 0 (no row) and those of skip, in order
RECURSIVE Present(_, _)
Present(s, skip) ==
    IF s = <<>> THEN <<>>
    ELSE (IF Head(s) = 0 \/ Head(s) \in skip THEN <<>> ELSE <<Head(s)>>)
         \o Present(Tail(s), skip)

Range(s) == {s[k] : k \in DOMAIN s}

\* row i comes before row j in idx_posts_published (is_published, is_draft,
\* published_at DESC), rows that tie in the order of their rowids
IndexBefore(i, j) ==
    \/ posts[i].is_draft < posts[j].is_draft
    \/ /\ posts[i].is_draft = posts[j].is_draft
       /\ \/ posts[i].published_at > posts[j].published_at
          \/ posts[i].published_at = posts[j].published_at /\ rowids[i] < rowids[j]

\* the ids of S in the order in which a SELECT without ORDER BY that runs
\* on that index returns their rows
RECURSIVE SelectOrder(_)
SelectOrder(S) ==
    IF S = {} THEN <<>>
    ELSE LET x == CHOOSE y \in S : \A z \in S \ {y} : IndexBefore(y, z)
         IN  <<x>> \o SelectOrder(S \ {x})

\* the stages of the background tasks handed to waitUntil
GenStages ==
    {"gen_self", "gen_prev", "gen_new", "gen_old", "gen_nbrs", "gen_post", "rebuild"}

\* the stage of q has an operation left to await
HasWork(q) ==
    \/ q.rows # <<>>
    \/ q.pc \in {"gen_prev", "rebuild"} /\ q.sel = 0
    \/ q.pc = "gen_new" /\ q.sel < 2
    \/ q.pc \in {"gen_old", "gen_post"} /\ q.ids # <<>>

\* the stage that follows the stage of q in the task of q
NextStage(q) ==
    CASE q.kind = "create" /\ q.pc = "gen_self" -> "gen_prev"
      [] q.kind = "update" /\ q.pc = "gen_self" -> "gen_new"
      [] q.kind = "update" /\ q.pc = "gen_new" -> "gen_old"
      [] OTHER -> "done"

\* the task runs on, without awaiting, to its next awaited operation
RECURSIVE Settle(_)
Settle(q) ==
    IF q.pc \in GenStages /\ ~HasWork(q)
    THEN Settle([q EXCEPT !.pc = NextStage(q), !.sel = 0])
    ELSE q

\* the request with its first post object done with
Popped(q) == [q EXCEPT !.rows = Tail(q.rows), !.rd = 0, !.doc = EmptyDoc]

\* a put that stores the page and leaves the post object waiting, so that
\* the stage never ends
GenStepForever(r, storeOk, caught) ==
    LET q == reqs[r]
        p == Head(q.rows)
    IN  /\ q.rows # <<>>
        /\ storeOk
        /\ IF q.rd < ReadCount
           THEN /\ \E d \in ReadStep(q.doc, p, q.rd + 1) :
                      reqs' = [reqs EXCEPT ![r].rd = q.rd + 1, ![r].doc = d]
                /\ UNCHANGED pages
           ELSE /\ pages' = Put(pages, p.slug, q.doc)
                /\ reqs' = [reqs EXCEPT ![r].regen = @ \cup {p.id}]

\* One awaited operation of generateAndStoreStaticPage(env, Head(rows)): the
\* next query of its Promise.all, or, the queries answered, STATIC_PAGES.put
\* of the document built from the answers.  A put that throws (storeOk
\* false) is caught and logged by the caller (caught: the bulk rebuild), or
\* ends the whole task (at: the stage it ended in, left: the posts of the
\* stage not generated).
GenStep(r, storeOk, caught) ==
    LET q == reqs[r]
        p == Head(q.rows)
    IN  /\ q.rows # <<>>
        /\ IF q.rd < ReadCount
           THEN /\ storeOk
                /\ \E d \in ReadStep(q.doc, p, q.rd + 1) :
                      reqs' = [reqs EXCEPT ![r].rd = q.rd + 1, ![r].doc = d]
                /\ UNCHANGED pages
           ELSE IF storeOk
           THEN /\ pages' = Put(pages, p.slug, q.doc)
                /\ reqs' = [reqs EXCEPT ![r] =
                              Settle([Popped(q) EXCEPT !.regen = @ \cup {p.id}])]
           ELSE /\ UNCHANGED pages
                /\ reqs' = [reqs EXCEPT ![r] =
                      IF caught THEN Settle(Popped(q))
                      ELSE [Popped(q) EXCEPT
                              !.pc = "aborted", !.at = q.pc, !.rows = <<>>,
                              !.left = {q.rows[k].id : k \in 2..Len(q.rows)}]]

\* SELECT * FROM posts WHERE id = ? for the next id of the stage: the row
\* found is generated next, an id without a row is passed over
RereadStep(r) ==
    LET q == reqs[r]
    IN  /\ q.rows = <<>> /\ q.ids # <<>>
        /\ reqs' = [reqs EXCEPT ![r] =
                      Settle([q EXCEPT !.rows = RowsOf(<<Head(q.ids)>>),
                                       !.ids = Tail(q.ids)])]
        /\ UNCHANGED pages

\* the task handed to waitUntil starts with the stage pc
Dispatch(q, pc, status) ==
    Settle([q EXCEPT !.pc = pc, !.status = status, !.sel = 0])

\* generateUniqueSlug, one iteration of while (true): the lookup of the
\* candidate; a free candidate ends the loop and the handler goes on to its
\* write with it (create: publishedAt = new Date() is taken here)
SlugTry(q) ==
    LET base == BaseSlug(IF q.kind = "create" THEN q.snap.title ELSE q.upd.title)
    IN  IF SlugHeldByOther(q.cand, q.id)
        THEN [q EXCEPT !.cand = Suffixed(base, q.suffix), !.suffix = q.suffix + 1]
        ELSE IF q.kind = "create"
        THEN [q EXCEPT !.pc = "insert", !.cand = <<>>,
                       !.snap = [q.snap EXCEPT !.slug = q.cand, !.published_at = now]]
        ELSE [q EXCEPT !.pc = "write", !.cand = <<>>,
                       !.upd = WithSlug(q.upd, q.cand),
                       !.snap = Merge(q.orig, WithSlug(q.upd, q.cand))]

SlugLookup(r) ==
    /\ reqs[r].pc = "slug"
    /\ reqs' = [reqs EXCEPT ![r] = SlugTry(reqs[r])]
    /\ UNCHANGED <<posts, rowids, nextId, pages, comments, nextCid, blacklist, views, settings, now, ops, schema>>

---------------------------------------------------------------------------
(* api.post('/posts') *)

\* the schema of migrations/init.sql: the posts table has no column
\* feature_image and there is no table post_images
RepoSchema == "init.sql"

\* that schema with the column posts.feature_image and the association table
\* post_images added
ImageSchema == "with images"

Schemas == {RepoSchema, ImageSchema}

InitSchema == {RepoSchema}

\* INSERT INTO posts (..., feature_image) and DELETE FROM post_images succeed
HasImageSchema == schema = ImageSchema

\* updatePostImageRelations, its first statement: await DELETE FROM
\* post_images WHERE post_id = ?, which throws on a schema without the table
\* or when the database refuses it (dbOk false); the handler catches and
\* answers 500.  n is the length of uniqueUrls, the distinct image URLs of the
\* content and the feature image: with none the function returns and the
\* handler goes on (responded) without awaiting anything else.
ImagesDeleted(q, dbOk, n, responded) ==
    IF ~(dbOk /\ HasImageSchema) THEN [q EXCEPT !.pc = "done", !.status = 500]
    ELSE IF n = 0 THEN responded
    ELSE [q EXCEPT !.pc = "image", !.imgs = n]

\* for (const url of uniqueUrls): await INSERT OR IGNORE INTO post_images;
\* after the last URL the function returns and the handler goes on
ImageInserted(q, dbOk, responded) ==
    IF ~dbOk THEN [q EXCEPT !.pc = "done", !.status = 500, !.imgs = 0]
    ELSE IF q.imgs > 1 THEN [q EXCEPT !.imgs = q.imgs - 1]
    ELSE [responded EXCEPT !.imgs = 0]

\* the title check, crypto.randomUUID() and the first lookup of the slug loop
CreatePostStart(r, body) ==
    /\ Free(r)
    /\ ops' = ops + 1
    /\ IF body.title = <<>>
       THEN /\ reqs' = [reqs EXCEPT ![r] = Rejected("create", 0, 400)]
            /\ UNCHANGED nextId
       ELSE /\ nextId <= MaxPosts
            /\ nextId' = nextId + 1
            /\ reqs' = [reqs EXCEPT ![r] =
                  SlugTry([Idle EXCEPT !.kind = "create", !.pc = "slug", !.id = nextId,
                             !.cand = BaseSlug(body.title), !.suffix = 1,
                             !.snap = [id |-> nextId, title |-> body.title,
                                       slug |-> <<>>, published_at |-> 0,
                                       is_published |-> body.is_published,
                                       is_draft |-> body.is_draft]])]
    /\ UNCHANGED <<posts, rowids, pages, comments, nextCid, blacklist, views, settings, now, schema>>

\* INSERT INTO posts (..., feature_image, ...): the statement names a column
\* that the posts table of init.sql does not have
CreatePostInsert(r) ==
    /\ reqs[r].kind = "create" /\ reqs[r].pc = "insert"
    /\ LET row == reqs[r].snap
       IN  IF HasImageSchema /\ SlugConstraintOk(row.slug, row.id)
           THEN /\ posts' = [i \in Live \cup {row.id} |->
                                IF i = row.id THEN row ELSE posts[i]]
                /\ rowids' = [i \in Live \cup {row.id} |->
                                IF i = row.id THEN NextRowid ELSE rowids[i]]
                /\ reqs' = [reqs EXCEPT ![r].pc = "images"]
           ELSE /\ reqs' = [reqs EXCEPT ![r].pc = "done", ![r].status = 500]
                /\ UNCHANGED <<posts, rowids>>
    /\ UNCHANGED <<nextId, pages, comments, nextCid, blacklist, views, settings, now, ops, schema>>

\* updatePostImageRelations has returned: waitUntil(...) and the response
CreateResponded(q) == Dispatch([q EXCEPT !.rows = <<q.snap>>], "gen_self", 201)

\* updatePostImageRelations, its first statement
CreateImagesDelete(r, dbOk) ==
    /\ reqs[r].kind = "create" /\ reqs[r].pc = "images"
    /\ \E n \in 0..MaxImages :
          reqs' = [reqs EXCEPT ![r] =
                      ImagesDeleted(reqs[r], dbOk, n, CreateResponded(reqs[r]))]
    /\ UNCHANGED <<posts, rowids, nextId, pages, comments, nextCid, blacklist, views, settings, now, ops, schema>>

\* updatePostImageRelations, one iteration of its loop
CreateImagesInsert(r, dbOk) ==
    /\ reqs[r].kind = "create" /\ reqs[r].pc = "image"
    /\ reqs' = [reqs EXCEPT ![r] =
                  ImageInserted(reqs[r], dbOk, CreateResponded(reqs[r]))]
    /\ UNCHANGED <<posts, rowids, nextId, pages, comments, nextCid, blacklist, views, settings, now, ops, schema>>

\* generateAndStoreStaticPage(c.env, newPost)
CreateGenSelf(r, storeOk) ==
    /\ reqs[r].kind = "create" /\ reqs[r].pc = "gen_self"
    /\ GenStep(r, storeOk, FALSE)
    /\ UNCHANGED <<posts, rowids, nextId, comments, nextCid, blacklist, views, settings, now, ops, schema>>

\* the create cascade's query without its is_published condition
CreatePrevRowsAnyRow(t) == PrevRows(t, FALSE)

\* the neighbour query of the create cascade
CreatePrevRows(t) == PrevRows(t, TRUE)

\* the query of the previous post, then generateAndStoreStaticPage(c.env, prevPost)
CreateGenPrev(r, storeOk) ==
    /\ reqs[r].kind = "create" /\ reqs[r].pc = "gen_prev"
    /\ IF reqs[r].sel = 0
       THEN /\ storeOk
            /\ \E a \in FirstOf(CreatePrevRows(reqs[r].snap.published_at)) :
                  reqs' = [reqs EXCEPT ![r] =
                     Settle([reqs[r] EXCEPT !.sel = 1,
                                            !.rows = RowsOf(Present(<<a>>, {}))])]
            /\ UNCHANGED pages
       ELSE GenStep(r, storeOk, FALSE)
    /\ UNCHANGED <<posts, rowids, nextId, comments, nextCid, blacklist, views, settings, now, ops, schema>>

---------------------------------------------------------------------------
(* api.put('/posts/:id') *)

\* the neighbour queries of the update handler and of its cascade
UpdatePrevRows(t) == PrevRows(t, FALSE)

UpdateNextRows(t) == NextRows(t, FALSE)

\* body.title && body.title !== originalPost.title
TitleChanges(orig, body) ==
    "title" \in DOMAIN body /\ body.title # <<>> /\ body.title # orig.title

\* SELECT * FROM posts WHERE id = ?
UpdatePostStart(r, id, body) ==
    /\ Free(r)
    /\ ops' = ops + 1
    /\ reqs' = [reqs EXCEPT ![r] =
          IF id \notin Live THEN Rejected("update", id, 404)
          ELSE [Idle EXCEPT !.kind = "update", !.pc = "sel_prev", !.id = id,
                            !.orig = posts[id], !.upd = body]]
    /\ UNCHANGED <<posts, rowids, nextId, pages, comments, nextCid, blacklist, views, settings, now, schema>>

\* the first query of the Promise.all: the previous neighbour
UpdateSelPrev(r) ==
    /\ reqs[r].kind = "update" /\ reqs[r].pc = "sel_prev"
    /\ \E a \in FirstOf(UpdatePrevRows(reqs[r].orig.published_at)) :
          reqs' = [reqs EXCEPT ![r].pc = "sel_next", ![r].nbrs = Present(<<a>>, {})]
    /\ UNCHANGED <<posts, rowids, nextId, pages, comments, nextCid, blacklist, views, settings, now, ops, schema>>

\* the second query: the next neighbour; then the updates object is made
\* from the body and, when the title changes, the slug loop starts (its
\* first lookup is the next awaited operation); an empty updates object
\* skips the UPDATE
UpdateSelNext(r) ==
    /\ reqs[r].kind = "update" /\ reqs[r].pc = "sel_next"
    /\ \E b \in FirstOf(UpdateNextRows(reqs[r].orig.published_at)) :
          LET q == [reqs[r] EXCEPT !.nbrs = @ \o Present(<<b>>, {})]
          IN  reqs' = [reqs EXCEPT ![r] =
                IF TitleChanges(q.orig, q.upd)
                THEN [q EXCEPT !.pc = "slug", !.cand = BaseSlug(q.upd.title),
                               !.suffix = 1]
                ELSE [q EXCEPT !.pc = IF DOMAIN q.upd = {} THEN "images" ELSE "write",
                               !.snap = Merge(q.orig, q.upd)]]
    /\ UNCHANGED <<posts, rowids, nextId, pages, comments, nextCid, blacklist, views, settings, now, ops, schema>>

\* UPDATE posts SET ... WHERE id = ?
UpdatePostWrite(r) ==
    /\ reqs[r].kind = "update" /\ reqs[r].pc = "write"
    /\ LET id == reqs[r].id
           upd == reqs[r].upd
       IN  IF id \notin Live
           THEN /\ reqs' = [reqs EXCEPT ![r].pc = "images"]
                /\ UNCHANGED <<posts, rowids>>
           ELSE IF "slug" \in DOMAIN upd /\ ~SlugConstraintOk(upd.slug, id)
           THEN /\ reqs' = [reqs EXCEPT ![r].pc = "done", ![r].status = 500]
                /\ UNCHANGED <<posts, rowids>>
           ELSE /\ posts' = [posts EXCEPT ![id] = Merge(posts[id], upd)]
                /\ UNCHANGED rowids
                /\ reqs' = [reqs EXCEPT ![r].pc = "images"]
    /\ UNCHANGED <<nextId, pages, comments, nextCid, blacklist, views, settings, now, ops, schema>>

\* updatePostImageRelations has returned: updatedPost is built,
\* waitUntil(...) and the response
UpdateResponded(q) ==
    Dispatch([q EXCEPT !.rows = <<q.snap>>, !.ids = q.nbrs], "gen_self", 200)

\* updatePostImageRelations, its first statement
UpdateImagesDelete(r, dbOk) ==
    /\ reqs[r].kind = "update" /\ reqs[r].pc = "images"
    /\ \E n \in 0..MaxImages :
          reqs' = [reqs EXCEPT ![r] =
                      ImagesDeleted(reqs[r], dbOk, n, UpdateResponded(reqs[r]))]
    /\ UNCHANGED <<posts, rowids, nextId, pages, comments, nextCid, blacklist, views, settings, now, ops, schema>>

\* updatePostImageRelations, one iteration of its loop
UpdateImagesInsert(r, dbOk) ==
    /\ reqs[r].kind = "update" /\ reqs[r].pc = "image"
    /\ reqs' = [reqs EXCEPT ![r] =
                  ImageInserted(reqs[r], dbOk, UpdateResponded(reqs[r]))]
    /\ UNCHANGED <<posts, rowids, nextId, pages, comments, nextCid, blacklist, views, settings, now, ops, schema>>

\* generateAndStoreStaticPage(c.env, updatedPost)
UpdateGenSelf(r, storeOk) ==
    /\ reqs[r].kind = "update" /\ reqs[r].pc = "gen_self"
    /\ GenStep(r, storeOk, FALSE)
    /\ UNCHANGED <<posts, rowids, nextId, comments, nextCid, blacklist, views, settings, now, ops, schema>>

\* the two queries of the new neighbours, then the pages of those that are
\* not in neighborsToUpdate
UpdateGenNew(r, storeOk) ==
    /\ reqs[r].kind = "update" /\ reqs[r].pc = "gen_new"
    /\ LET q == reqs[r]
           t == q.snap.published_at
       IN  IF q.sel = 0
           THEN /\ storeOk
                /\ \E a \in FirstOf(UpdatePrevRows(t)) :
                      reqs' = [reqs EXCEPT ![r].sel = 1,
                                 ![r].rows = RowsOf(Present(<<a>>, Range(q.nbrs)))]
                /\ UNCHANGED pages
           ELSE IF q.sel = 1
           THEN /\ storeOk
                /\ \E b \in FirstOf(UpdateNextRows(t)) :
                      reqs' = [reqs EXCEPT ![r] =
                         Settle([q EXCEPT !.sel = 2,
                                   !.rows = @ \o RowsOf(Present(<<b>>, Range(q.nbrs)))])]
                /\ UNCHANGED pages
           ELSE GenStep(r, storeOk, FALSE)
    /\ UNCHANGED <<posts, rowids, nextId, comments, nextCid, blacklist, views, settings, now, ops, schema>>

\* for (const neighborId of neighborsToUpdate): the row is read again and,
\* if it is there, generated
UpdateGenOld(r, storeOk) ==
    /\ reqs[r].kind = "update" /\ reqs[r].pc = "gen_old"
    /\ IF reqs[r].rows = <<>> THEN storeOk /\ RereadStep(r) ELSE GenStep(r, storeOk, FALSE)
    /\ UNCHANGED <<posts, rowids, nextId, comments, nextCid, blacklist, views, settings, now, ops, schema>>

---------------------------------------------------------------------------
(* api.delete('/posts/:id') *)

\* the neighbour queries of the delete handler
DeletePrevRows(t) == PrevRows(t, FALSE)

DeleteNextRows(t) == NextRows(t, FALSE)

\* SELECT * FROM posts WHERE id = ?
DeletePostStart(r, id) ==
    /\ Free(r)
    /\ ops' = ops + 1
    /\ reqs' = [reqs EXCEPT ![r] =
          IF id \notin Live THEN Rejected("delete", id, 404)
          ELSE [Idle EXCEPT !.kind = "delete", !.pc = "sel_prev", !.id = id,
                            !.snap = posts[id]]]
    /\ UNCHANGED <<posts, rowids, nextId, pages, comments, nextCid, blacklist, views, settings, now, schema>>

\* the first query of the Promise.all: the row of the previous neighbour
DeleteSelPrev(r) ==
    /\ reqs[r].kind = "delete" /\ reqs[r].pc = "sel_prev"
    /\ \E a \in FirstOf(DeletePrevRows(reqs[r].snap.published_at)) :
          reqs' = [reqs EXCEPT ![r].pc = "sel_next",
                               ![r].nbrs = RowsOf(Present(<<a>>, {}))]
    /\ UNCHANGED <<posts, rowids, nextId, pages, comments, nextCid, blacklist, views, settings, now, ops, schema>>

\* the second query: the row of the next neighbour
DeleteSelNext(r) ==
    /\ reqs[r].kind = "delete" /\ reqs[r].pc = "sel_next"
    /\ \E b \in FirstOf(DeleteNextRows(reqs[r].snap.published_at)) :
          reqs' = [reqs EXCEPT ![r].pc = "write",
                               ![r].nbrs = @ \o RowsOf(Present(<<b>>, {}))]
    /\ UNCHANGED <<posts, rowids, nextId, pages, comments, nextCid, blacklist, views, settings, now, ops, schema>>

\* DELETE FROM posts; the comments rows go with it (ON DELETE CASCADE)
DeletePostWrite(r) ==
    /\ reqs[r].kind = "delete" /\ reqs[r].pc = "write"
    /\ posts' = [i \in Live \ {reqs[r].id} |-> posts[i]]
    /\ rowids' = [i \in Live \ {reqs[r].id} |-> rowids[i]]
    /\ comments' = [c \in {d \in DOMAIN comments : comments[d].post_id # reqs[r].id}
                      |-> comments[c]]
    /\ views' = [i \in (DOMAIN views) \ {reqs[r].id} |-> views[i]]
    /\ reqs' = [reqs EXCEPT ![r].pc = "del_page"]
    /\ UNCHANGED <<nextId, pages, nextCid, blacklist, settings, now, ops, schema>>

\* await STATIC_PAGES.delete(slug) inside try/catch, then waitUntil(...) and
\* the response
DeletePostPage(r, storeOk) ==
    /\ reqs[r].kind = "delete" /\ reqs[r].pc = "del_page"
    /\ pages' = IF storeOk THEN Remove(pages, reqs[r].snap.slug) ELSE pages
    /\ reqs' = [reqs EXCEPT ![r] =
                  Dispatch([reqs[r] EXCEPT !.rows = reqs[r].nbrs], "gen_nbrs", 200)]
    /\ UNCHANGED <<posts, rowids, nextId, comments, nextCid, blacklist, views, settings, now, ops, schema>>

\* the captured neighbour rows are generated as they were read
DeleteGenNeighbours(r, storeOk) ==
    /\ reqs[r].kind = "delete" /\ reqs[r].pc = "gen_nbrs"
    /\ GenStep(r, storeOk, FALSE)
    /\ UNCHANGED <<posts, rowids, nextId, comments, nextCid, blacklist, views, settings, now, ops, schema>>

---------------------------------------------------------------------------
(* app.post('/api/posts/:postId/comments') *)

\* seconds of the rate-limit window: Date.now() - 60 * 1000
RateWindow == 60
\* submissions of one IP admitted per window: recentComments.count >= 3
RateLimit == 3

RECURSIVE TrimLeft(_)
TrimLeft(s) == IF s # <<>> /\ IsSpace(Head(s)) THEN TrimLeft(Tail(s)) ELSE s

RECURSIVE TrimRight(_)
TrimRight(s) ==
    IF s # <<>> /\ IsSpace(s[Len(s)]) THEN TrimRight(SubSeq(s, 1, Len(s) - 1)) ELSE s

\* String.prototype.trim
Trim(s) == TrimRight(TrimLeft(s))

\* SELECT id FROM ip_blacklist WHERE ip_address = ?
isIpBlacklisted(ip) == ip \in blacklist

\* api.post('/ip-blacklist'): INSERT INTO ip_blacklist (ip_address, reason);
\* ip_address is UNIQUE, a second insert of the same address throws
BlacklistAdd(ip) ==
    /\ blacklist' = blacklist \cup {ip}
    /\ UNCHANGED <<posts, rowids, nextId, pages, comments, nextCid, views, settings, now, reqs, ops, schema>>

\* SELECT COUNT(*) FROM comments WHERE ip_address = ? AND created_at > ?
RecentCount(ip, since) ==
    Cardinality({c \in DOMAIN comments :
                    comments[c].ip_address = ip /\ comments[c].created_at > since})

\* a handler without the rate check
RateLimitedNever(ip, t) == FALSE

\* the limit compared with > instead of >=
RateLimitedAboveLimit(ip, t) == RecentCount(ip, t - RateWindow) > RateLimit

RateLimited(ip, t) == RecentCount(ip, t - RateWindow) >= RateLimit

\* the two lookups with the post looked up before the blacklist
CommentChecksPostFirst == <<"post", "blacklist">>

\* the lookups of the handler before the body is read, in the order in which
\* the handler awaits them
CommentChecks == <<"blacklist", "post">>

\* the status one of these lookups ends the request with (0: it goes on)
CommentCheck(name, ip, postId) ==
    IF name = "blacklist"
    THEN (IF isIpBlacklisted(ip) THEN 403 ELSE 0)
    ELSE (IF postId \notin Live THEN 404 ELSE 0)

\* the request with the response an early return of the handler gives
CommentRejected(q, status) == [Rejected("comment", q.id, status) EXCEPT !.upd = q.upd]

\* const oneMinuteAgo = new Date(Date.now() - 60 * 1000), before the count
\* query is awaited
CommentToCount(q) == [q EXCEPT !.pc = "count", !.upd.checked = now]

\* await isIpBlacklisted(c.env.DB, userIp)
CommentStart(r, ip, postId, body) ==
    /\ Free(r)
    /\ ops' = ops + 1
    /\ LET q == [Idle EXCEPT !.kind = "comment", !.pc = "sel_post", !.id = postId,
                   !.upd = [post_id |-> postId, ip_address |-> ip,
                            author |-> body.author, content |-> body.content,
                            parent_id |-> body.parent_id, checked |-> 0,
                            created_at |-> 0]]
           v == CommentCheck(CommentChecks[1], ip, postId)
       IN  reqs' = [reqs EXCEPT ![r] = IF v # 0 THEN CommentRejected(q, v) ELSE q]
    /\ UNCHANGED <<posts, rowids, nextId, pages, comments, nextCid, blacklist, views, settings, now, schema>>

\* SELECT id FROM posts WHERE id = ?, then the body is read and validated
CommentSelPost(r) ==
    /\ reqs[r].kind = "comment" /\ reqs[r].pc = "sel_post"
    /\ LET q == reqs[r]
           v == CommentCheck(CommentChecks[2], q.upd.ip_address, q.id)
       IN  reqs' = [reqs EXCEPT ![r] =
              IF v # 0 THEN CommentRejected(q, v)
              ELSE IF Trim(q.upd.author) = <<>> \/ Trim(q.upd.content) = <<>>
              THEN CommentRejected(q, 400)
              ELSE IF q.upd.parent_id # 0 THEN [q EXCEPT !.pc = "sel_parent"]
              ELSE CommentToCount(q)]
    /\ UNCHANGED <<posts, rowids, nextId, pages, comments, nextCid, blacklist, views, settings, now, ops, schema>>

\* if (parent_id): SELECT author FROM comments WHERE id = ?
CommentSelParent(r) ==
    /\ reqs[r].kind = "comment" /\ reqs[r].pc = "sel_parent"
    /\ reqs' = [reqs EXCEPT ![r] =
          IF reqs[r].upd.parent_id \notin DOMAIN comments
          THEN CommentRejected(reqs[r], 404)
          ELSE CommentToCount(reqs[r])]
    /\ UNCHANGED <<posts, rowids, nextId, pages, comments, nextCid, blacklist, views, settings, now, ops, schema>>

\* the count query with oneMinuteAgo; below the limit the handler takes
\* commentId = crypto.randomUUID() and createdAt = new Date()
CommentCount(r) ==
    /\ reqs[r].kind = "comment" /\ reqs[r].pc = "count"
    /\ IF RateLimited(reqs[r].upd.ip_address, reqs[r].upd.checked)
       THEN /\ reqs' = [reqs EXCEPT ![r] = CommentRejected(reqs[r], 429)]
            /\ UNCHANGED nextCid
       ELSE /\ nextCid <= MaxComments
            /\ nextCid' = nextCid + 1
            /\ reqs' = [reqs EXCEPT ![r].pc = "insert", ![r].snap = [id |-> nextCid],
                                    ![r].upd.created_at = now]
    /\ UNCHANGED <<posts, rowids, nextId, pages, comments, blacklist, views, settings, now, ops, schema>>

\* INSERT INTO comments (..., is_approved, ...) VALUES (..., 0, ...), then
\* waitUntil(...) and the response; the row needs its post (FOREIGN KEY
\* post_id) and no parent (parent_id has no constraint)
CommentInsert(r) ==
    /\ reqs[r].kind = "comment" /\ reqs[r].pc = "insert"
    /\ IF reqs[r].id \in Live
       THEN /\ comments' = [c \in (DOMAIN comments) \cup {reqs[r].snap.id} |->
                              IF c = reqs[r].snap.id
                              THEN [post_id |-> reqs[r].upd.post_id,
                                    ip_address |-> reqs[r].upd.ip_address,
                                    created_at |-> reqs[r].upd.created_at,
                                    is_approved |-> 0,
                                    parent_id |-> reqs[r].upd.parent_id]
                              ELSE comments[c]]
            /\ reqs' = [reqs EXCEPT ![r] =
                          Dispatch([reqs[r] EXCEPT !.ids = <<reqs[r].id>>],
                                   "gen_post", 201)]
       ELSE /\ reqs' = [reqs EXCEPT ![r].pc = "done", ![r].status = 500]
            /\ UNCHANGED comments
    /\ UNCHANGED <<posts, rowids, nextId, pages, nextCid, blacklist, views, settings, now, ops, schema>>

\* a cascade of a comment request that ends without generating a page
GenNoPost(r, storeOk) ==
    /\ reqs[r].kind \in {"comment", "moderate", "uncomment"} /\ reqs[r].pc = "gen_post"
    /\ storeOk
    /\ reqs' = [reqs EXCEPT ![r].pc = "done", ![r].ids = <<>>]
    /\ UNCHANGED <<posts, rowids, nextId, pages, comments, nextCid, blacklist, views, settings, now, ops, schema>>

\* the cascade of a comment request: the owning post is read again and generated
GenOwningPost(r, storeOk) ==
    /\ reqs[r].kind \in {"comment", "moderate", "uncomment"} /\ reqs[r].pc = "gen_post"
    /\ IF reqs[r].rows = <<>> THEN storeOk /\ RereadStep(r) ELSE GenStep(r, storeOk, FALSE)
    /\ UNCHANGED <<posts, rowids, nextId, comments, nextCid, blacklist, views, settings, now, ops, schema>>

---------------------------------------------------------------------------
(* api.put('/comments/:id') and api.delete('/comments/:id') *)

ModerateStart(r, cid, approved) ==
    /\ Free(r)
    /\ ops' = ops + 1
    /\ reqs' = [reqs EXCEPT ![r] =
          IF cid \notin DOMAIN comments THEN Rejected("moderate", 0, 404)
          ELSE [Idle EXCEPT !.kind = "moderate", !.pc = "write",
                  !.id = comments[cid].post_id,
                  !.upd = [cid |-> cid, is_approved |-> approved]]]
    /\ UNCHANGED <<posts, rowids, nextId, pages, comments, nextCid, blacklist, views, settings, now, schema>>

\* UPDATE comments SET is_approved = ? WHERE id = ?, then waitUntil(...) and
\* the response
ModerateWrite(r) ==
    /\ reqs[r].kind = "moderate" /\ reqs[r].pc = "write"
    /\ comments' = [c \in DOMAIN comments |->
                      IF c = reqs[r].upd.cid
                      THEN [comments[c] EXCEPT !.is_approved = reqs[r].upd.is_approved]
                      ELSE comments[c]]
    /\ reqs' = [reqs EXCEPT ![r] =
                  Dispatch([reqs[r] EXCEPT !.ids = <<reqs[r].id>>], "gen_post", 200)]
    /\ UNCHANGED <<posts, rowids, nextId, pages, nextCid, blacklist, views, settings, now, ops, schema>>

DeleteCommentStart(r, cid) ==
    /\ Free(r)
    /\ ops' = ops + 1
    /\ reqs' = [reqs EXCEPT ![r] =
          IF cid \notin DOMAIN comments THEN Rejected("uncomment", 0, 404)
          ELSE [Idle EXCEPT !.kind = "uncomment", !.pc = "write",
                  !.id = comments[cid].post_id, !.upd = [cid |-> cid]]]
    /\ UNCHANGED <<posts, rowids, nextId, pages, comments, nextCid, blacklist, views, settings, now, schema>>

\* DELETE FROM comments WHERE id = ?, then waitUntil(...) and the response
DeleteCommentWrite(r) ==
    /\ reqs[r].kind = "uncomment" /\ reqs[r].pc = "write"
    /\ comments' = [c \in (DOMAIN comments) \ {reqs[r].upd.cid} |-> comments[c]]
    /\ reqs' = [reqs EXCEPT ![r] =
                  Dispatch([reqs[r] EXCEPT !.ids = <<reqs[r].id>>], "gen_post", 200)]
    /\ UNCHANGED <<posts, rowids, nextId, pages, nextCid, blacklist, views, settings, now, ops, schema>>

---------------------------------------------------------------------------
(* api.post('/rebuild-all') *)

\* waitUntil(...) and the response
RebuildStart(r) ==
    /\ Free(r)
    /\ ops' = ops + 1
    /\ reqs' = [reqs EXCEPT ![r] =
          [Idle EXCEPT !.kind = "rebuild", !.pc = "rebuild", !.status = 200]]
    /\ UNCHANGED <<posts, rowids, nextId, pages, comments, nextCid, blacklist, views, settings, now, schema>>

\* SELECT * FROM posts WHERE is_published = true
RebuildRows == {i \in Live : posts[i].is_published}

\* if (post.slug): the loop passes over a row whose slug is the empty string
HasSlug(p) == p.slug # <<>>

\* the SELECT, then every row that has a slug is generated inside its own
\* try/catch: a put that throws is logged and the loop goes on with the next
\* row
RebuildRun(r, storeOk) ==
    /\ reqs[r].kind = "rebuild" /\ reqs[r].pc = "rebuild"
    /\ IF reqs[r].sel = 0
       THEN /\ storeOk
            /\ reqs' = [reqs EXCEPT ![r] =
                  Settle([reqs[r] EXCEPT !.sel = 1,
                            !.rows = SelectSeq(RowsOf(SelectOrder(RebuildRows)),
                                               HasSlug)])]
            /\ UNCHANGED pages
       ELSE GenStep(r, storeOk, TRUE)
    /\ UNCHANGED <<posts, rowids, nextId, comments, nextCid, blacklist, views, settings, now, ops, schema>>

---------------------------------------------------------------------------
(* app.get('/api/posts/:postId/views') *)

\* SELECT id FROM posts WHERE id = ?: 404 when the post does not exist
ViewStart(r, postId) ==
    /\ Free(r)
    /\ reqs' = [reqs EXCEPT ![r] =
          IF postId \notin Live THEN Rejected("view", postId, 404)
          ELSE [Idle EXCEPT !.kind = "view", !.pc = "write", !.id = postId]]
    /\ UNCHANGED <<posts, rowids, nextId, pages, comments, nextCid, blacklist, views,
                   settings, now, ops, schema>>

\* INSERT INTO post_views ... ON CONFLICT(post_id) DO UPDATE SET
\* view_count = view_count + 1, then the response; the INSERT for a post
\* deleted since the lookup violates the foreign key, which the handler
\* catches and answers with 500
RecordView(r) ==
    /\ reqs[r].kind = "view" /\ reqs[r].pc = "write"
    /\ LET postId == reqs[r].id
       IN  IF postId \in Live
           THEN /\ views' = [i \in (DOMAIN views) \cup {postId} |->
                              IF i = postId THEN ViewCount(postId) + 1 ELSE views[i]]
                /\ reqs' = [reqs EXCEPT ![r].pc = "done", ![r].status = 200]
           ELSE /\ UNCHANGED views
                /\ reqs' = [reqs EXCEPT ![r].pc = "done", ![r].status = 500]
    /\ UNCHANGED <<posts, rowids, nextId, pages, comments, nextCid, blacklist, settings,
                   now, ops, schema>>

---------------------------------------------------------------------------
(* api.get('/settings') and api.put('/settings') *)

\* SELECT * FROM settings, reduced to an object
SettingsGet == settings

\* UPDATE settings SET value = ? WHERE key = ?
UpdateSetting(tbl, key, value) ==
    [k \in DOMAIN tbl |-> IF k = key THEN value ELSE tbl[k]]

\* DB.batch of one UPDATE per entry of the body; the response
RECURSIVE UpdateAll(_, _, _)
UpdateAll(tbl, body, keys) ==
    IF keys = {} THEN tbl
    ELSE LET k == CHOOSE x \in keys : TRUE
         IN  UpdateAll(UpdateSetting(tbl, k, body[k]), body, keys \ {k})

SettingsPut(body) ==
    /\ settings' = UpdateAll(settings, body, DOMAIN body)
    /\ UNCHANGED <<posts, rowids, nextId, pages, comments, nextCid, blacklist, views,
                   now, reqs, ops, schema>>

---------------------------------------------------------------------------
(* BasicAuth and the routes of api behind it *)

\* the digits of base64, in the order of their values
Base64Chars ==
    <<"A", "B", "C", "D", "E", "F", "G", "H", "I", "J", "K", "L", "M",
      "N", "O", "P", "Q", "R", "S", "T", "U", "V", "W", "X", "Y", "Z",
      "a", "b", "c", "d", "e", "f", "g", "h", "i", "j", "k", "l", "m",
      "n", "o", "p", "q", "r", "s", "t", "u", "v", "w", "x", "y", "z",
      "0", "1", "2", "3", "4", "5", "6", "7", "8", "9", "+", "/">>

Base64Value(ch) == (CHOOSE i \in DOMAIN Base64Chars : Base64Chars[i] = ch) - 1

\* ASCII whitespace: tab, line feed, form feed, carriage return, space
AsciiWhitespace == {"\t", "\n", "\f", "\r", " "}

\* atob first removes all ASCII whitespace from its input
StripWhitespace(s) == SelectSeq(s, LAMBDA ch : ch \notin AsciiWhitespace)

\* then it drops one or two trailing "=" of what is left when the length of
\* that is a multiple of 4
StripPadding(s) ==
    IF Len(s) > 0 /\ Len(s) % 4 = 0 /\ s[Len(s)] = "="
    THEN IF s[Len(s) - 1] = "=" THEN SubSeq(s, 1, Len(s) - 2)
         ELSE SubSeq(s, 1, Len(s) - 1)
    ELSE s

\* atob throws when what is left has a length of 1 modulo 4 or holds a
\* character that is no digit
AtobThrows(encoded) ==
    LET s == StripPadding(StripWhitespace(encoded))
    IN  \/ Len(s) % 4 = 1
        \/ \E i \in DOMAIN s : s[i] \notin Range(Base64Chars)

\* the bytes of the digits of s: 3 of each 4 digits, 2 of a rest of 3 digits,
\* 1 of a rest of 2
RECURSIVE DecodeDigits(_)
DecodeDigits(s) ==
    IF Len(s) >= 4
    THEN LET n == Base64Value(s[1]) * 262144 + Base64Value(s[2]) * 4096
                  + Base64Value(s[3]) * 64 + Base64Value(s[4])
         IN  <<n \div 65536, (n \div 256) % 256, n % 256>>
                 \o DecodeDigits(SubSeq(s, 5, Len(s)))
    ELSE IF Len(s) = 3
    THEN LET n == (Base64Value(s[1]) * 4096 + Base64Value(s[2]) * 64
                   + Base64Value(s[3])) \div 4
         IN  <<n \div 256, n % 256>>
    ELSE IF Len(s) = 2
    THEN <<(Base64Value(s[1]) * 64 + Base64Value(s[2])) \div 16>>
    ELSE <<>>

\* atob(encoded), as character codes
atob(encoded) == DecodeDigits(StripPadding(StripWhitespace(encoded)))

\* character code of ":"
Colon == 58

\* String.prototype.split with a separator of one character
RECURSIVE Split(_, _)
Split(s, sep) ==
    IF \E i \in DOMAIN s : s[i] = sep
    THEN LET i == CHOOSE k \in DOMAIN s :
                      s[k] = sep /\ \A j \in 1..(k - 1) : s[j] # sep
         IN  <<SubSeq(s, 1, i - 1)>> \o Split(SubSeq(s, i + 1, Len(s)), sep)
    ELSE <<s>>

\* an element that destructuring takes from beyond the end of an array
Undefined == <<-1>>

\* c.env.ADMIN_USERNAME and c.env.ADMIN_PASSWORD: "u" and "p"
ADMIN_USERNAME == <<117>>

ADMIN_PASSWORD == <<112>>

\* a request without an Authorization header, or with an empty one
NoHeader == [scheme |-> "", encoded |-> <<>>]

\* the middleware on a request of the given method whose Authorization header
\* splits at " " into scheme and encoded: 0 when it calls next(), otherwise
\* the status of its response
BasicAuth(method, header) ==
    IF method = "OPTIONS" THEN 0
    ELSE IF header = NoHeader THEN 401
    ELSE IF header.scheme # "Basic" \/ header.encoded = <<>> THEN 400
    ELSE IF AtobThrows(header.encoded) THEN 400
    ELSE LET parts == Split(atob(header.encoded), Colon)
             username == parts[1]
             password == IF Len(parts) >= 2 THEN parts[2] ELSE Undefined
         IN  IF username = ADMIN_USERNAME /\ password = ADMIN_PASSWORD
             THEN 0 ELSE 401

---------------------------------------------------------------------------
(* The clock *)

Tick(d) ==
    /\ now' = now + d
    /\ UNCHANGED <<posts, rowids, nextId, pages, comments, nextCid, blacklist, views, settings, reqs, ops, schema>>

---------------------------------------------------------------------------
(* Inputs *)

Titles == {<<"a">>, <<"A", " ">>}

CreateBodies ==
    [title : Titles \cup {<<>>}, is_published : BOOLEAN, is_draft : {0, 1}]

UpdateBodies ==
    {<<>>}
    \cup [title : Titles \cup {<<"b">>}]
    \cup [published_at : 1..MaxTime]
    \cup [is_published : BOOLEAN]
    \cup [slug : {<<"b">>}]

IPs == {"ip1", "ip2"}

---------------------------------------------------------------------------
(* Initial states: a database of posts created earlier, in publish order,  *)
(* every post with its page as the renderer produces it                    *)

RECURSIVE SeqsOf(_, _)
SeqsOf(S, n) ==
    IF n = 0 THEN {<<>>}
    ELSE {Append(s, x) : s \in SeqsOf(S, n - 1), x \in S}

InitRows == [published_at : 1..MaxTime, is_published : BOOLEAN]

InitTitle == <<"a">>

InitSlug(i) == IF i = 1 THEN BaseSlug(InitTitle) ELSE Suffixed(BaseSlug(InitTitle), i - 1)

InitDb(s) ==
    [i \in 1..Len(s) |->
        [id |-> i, title |-> InitTitle, slug |-> InitSlug(i),
         published_at |-> s[i].published_at, is_published |-> s[i].is_published,
         is_draft |-> 0]]

InitDbs ==
    {InitDb(s) :
      s \in {q \in UNION {SeqsOf(InitRows, n) : n \in 0..MaxPosts} :
                \A i \in 1..(Len(q) - 1) : q[i].published_at <= q[i + 1].published_at}}

NoPages == [k \in {} |-> 0]

NoComments == [c \in {} |-> 0]

NoViews == [i \in {} |-> 0]

\* the rows init.sql inserts into settings
InitSettings == [k \in {"site_url", "admin_password"} |-> "v0"]

\* a comment waiting for moderation on the first post
SeedComment ==
    [c \in {1} |-> [post_id |-> 1, ip_address |-> "ip1", created_at |-> 1,
                    is_approved |-> 0, parent_id |-> 0]]

\* a comment of the first post that moderation has approved
ApprovedSeed ==
    [c \in {1} |-> [post_id |-> 1, ip_address |-> "ip1", created_at |-> 1,
                    is_approved |-> 1, parent_id |-> 0]]

\* three comments of one address submitted at the initial instant of the
\* comment specifications
RecentComments ==
    [c \in 1..RateLimit |-> [post_id |-> 1, ip_address |-> "ip1", created_at |-> MaxTime,
                             is_approved |-> 0, parent_id |-> 0]]

InitWith(dbs, cms, t0, schemas) ==
    /\ posts \in dbs
    /\ rowids = [i \in DOMAIN posts |-> i]
    /\ schema \in schemas
    /\ nextId = Cardinality(DOMAIN posts) + 1
    /\ comments \in {cm \in cms : \A c \in DOMAIN cm : cm[c].post_id \in DOMAIN posts}
    /\ nextCid = Cardinality(DOMAIN comments) + 1
    /\ blacklist = {}
    /\ views = NoViews
    /\ settings = InitSettings
    /\ now = t0
    /\ pages \in GenAll(NoPages, RowsOf(SelectOrder(DOMAIN posts)))
    /\ reqs = [r \in ReqIds \cup {ViewerId} |-> Idle]
    /\ ops = 0

Init == InitWith(InitDbs, {NoComments}, 1, Schemas)

---------------------------------------------------------------------------
(* Spec: one post request, with its cascade completed and no store        *)
(* failure, from any of the initial databases                             *)

Next ==
    \/ Quiet /\ now < MaxTime /\ Tick(1)
    \/ \E body \in CreateBodies : Fresh(1) /\ CreatePostStart(1, body)
    \/ CreatePostInsert(1)
    \/ CreateImagesDelete(1, TRUE)
    \/ CreateImagesInsert(1, TRUE)
    \/ CreateGenSelf(1, TRUE)
    \/ CreateGenPrev(1, TRUE)
    \/ \E id \in 1..MaxPosts, body \in UpdateBodies :
          Fresh(1) /\ UpdatePostStart(1, id, body)
    \/ UpdateSelPrev(1)
    \/ UpdateSelNext(1)
    \/ SlugLookup(1)
    \/ UpdatePostWrite(1)
    \/ UpdateImagesDelete(1, TRUE)
    \/ UpdateImagesInsert(1, TRUE)
    \/ UpdateGenSelf(1, TRUE)
    \/ UpdateGenNew(1, TRUE)
    \/ UpdateGenOld(1, TRUE)
    \/ \E id \in 1..MaxPosts : Fresh(1) /\ DeletePostStart(1, id)
    \/ DeleteSelPrev(1)
    \/ DeleteSelNext(1)
    \/ DeletePostWrite(1)
    \/ DeletePostPage(1, TRUE)
    \/ DeleteGenNeighbours(1, TRUE)

Spec == Init /\ [][Next]_vars

\* one create request at any instant of the clock, from any of the initial
\* databases; any put of its cascade may throw and the database may refuse
\* any statement of the image-relation update
NextCreate ==
    \/ Quiet /\ now < MaxTime /\ Tick(1)
    \/ \E body \in CreateBodies : Fresh(1) /\ CreatePostStart(1, body)
    \/ SlugLookup(1)
    \/ CreatePostInsert(1)
    \/ \E dbOk \in BOOLEAN : CreateImagesDelete(1, dbOk)
    \/ \E dbOk \in BOOLEAN : CreateImagesInsert(1, dbOk)
    \/ \E storeOk \in BOOLEAN : CreateGenSelf(1, storeOk)
    \/ \E storeOk \in BOOLEAN : CreateGenPrev(1, storeOk)

SpecCreate == Init /\ [][NextCreate]_vars

---------------------------------------------------------------------------
(* SpecConc: two requests running concurrently, their handlers and         *)
(* cascades interleaved at every awaited operation, no store failure. The   *)
(* database holds published posts of distinct past instants, so that each  *)
(* request run alone leaves every page current.                            *)

ConcDbs ==
    {db \in InitDbs :
        /\ \A i \in DOMAIN db : db[i].is_published /\ db[i].published_at < MaxTime
        /\ \A i, j \in DOMAIN db : i # j => db[i].published_at # db[j].published_at}

InitConc == InitWith(ConcDbs, {NoComments, SeedComment}, MaxTime, Schemas)

ConcCreateBodies == [title : Titles, is_published : {TRUE}, is_draft : {0}]

ConcUpdateBodies == [title : Titles] \cup [published_at : 1..MaxTime]

NextConc ==
    \E r \in ReqIds :
      \/ \E body \in ConcCreateBodies : Fresh(r) /\ CreatePostStart(r, body)
      \/ CreatePostInsert(r)
      \/ CreateImagesDelete(r, TRUE)
      \/ CreateImagesInsert(r, TRUE)
      \/ CreateGenSelf(r, TRUE)
      \/ CreateGenPrev(r, TRUE)
      \/ \E id \in 1..MaxPosts, body \in ConcUpdateBodies :
            Fresh(r) /\ UpdatePostStart(r, id, body)
      \/ UpdateSelPrev(r)
      \/ UpdateSelNext(r)
      \/ SlugLookup(r)
      \/ UpdatePostWrite(r)
      \/ UpdateImagesDelete(r, TRUE)
      \/ UpdateImagesInsert(r, TRUE)
      \/ UpdateGenSelf(r, TRUE)
      \/ UpdateGenNew(r, TRUE)
      \/ UpdateGenOld(r, TRUE)
      \/ \E id \in 1..MaxPosts : Fresh(r) /\ DeletePostStart(r, id)
      \/ DeleteSelPrev(r)
      \/ DeleteSelNext(r)
      \/ DeletePostWrite(r)
      \/ DeletePostPage(r, TRUE)
      \/ DeleteGenNeighbours(r, TRUE)
      \/ \E cid \in 1..MaxComments, approved \in {0, 1} :
            Fresh(r) /\ ModerateStart(r, cid, approved)
      \/ ModerateWrite(r)
      \/ GenOwningPost(r, TRUE)

SpecConc == InitConc /\ [][NextConc]_vars

\* Requests served one after the other: a request starts when no handler and
\* no background task is running, so that the posts table a slug loop reads
\* changes between two requests only.
NextSeq ==
    \E r \in ReqIds :
      \/ \E body \in ConcCreateBodies : Quiet /\ Fresh(r) /\ CreatePostStart(r, body)
      \/ CreatePostInsert(r)
      \/ CreateImagesDelete(r, TRUE)
      \/ CreateImagesInsert(r, TRUE)
      \/ CreateGenSelf(r, TRUE)
      \/ CreateGenPrev(r, TRUE)
      \/ \E id \in 1..MaxPosts, body \in ConcUpdateBodies :
            Quiet /\ Fresh(r) /\ UpdatePostStart(r, id, body)
      \/ UpdateSelPrev(r)
      \/ UpdateSelNext(r)
      \/ SlugLookup(r)
      \/ UpdatePostWrite(r)
      \/ UpdateImagesDelete(r, TRUE)
      \/ UpdateImagesInsert(r, TRUE)
      \/ UpdateGenSelf(r, TRUE)
      \/ UpdateGenNew(r, TRUE)
      \/ UpdateGenOld(r, TRUE)
      \/ \E id \in 1..MaxPosts : Quiet /\ Fresh(r) /\ DeletePostStart(r, id)
      \/ DeleteSelPrev(r)
      \/ DeleteSelNext(r)
      \/ DeletePostWrite(r)
      \/ DeletePostPage(r, TRUE)
      \/ DeleteGenNeighbours(r, TRUE)

SpecSeq == InitConc /\ [][NextSeq]_vars

\* The handlers of two create or update requests interleaved at every awaited
\* operation up to their responses; the background tasks, which write no row
\* of the posts table, are not run.
NextWrite ==
    \E r \in ReqIds :
      \/ \E body \in ConcCreateBodies : Fresh(r) /\ CreatePostStart(r, body)
      \/ CreatePostInsert(r)
      \/ CreateImagesDelete(r, TRUE)
      \/ CreateImagesInsert(r, TRUE)
      \/ \E id \in 1..MaxPosts, body \in UpdateBodies :
            Fresh(r) /\ UpdatePostStart(r, id, body)
      \/ UpdateSelPrev(r)
      \/ UpdateSelNext(r)
      \/ SlugLookup(r)
      \/ UpdatePostWrite(r)
      \/ UpdateImagesDelete(r, TRUE)
      \/ UpdateImagesInsert(r, TRUE)

SpecWrite == InitConc /\ [][NextWrite]_vars

---------------------------------------------------------------------------
(* SpecFail: one request of any kind, from a database of up to MaxPosts   *)
(* published posts, where any page-store operation may throw and the       *)
(* database may refuse the image-relation update                           *)

CommentBodies == [author : {<<"n">>, <<" ">>}, content : {<<"c">>, <<>>}, parent_id : {0, 1}]

NextFail ==
    \/ \E body \in ConcCreateBodies : Fresh(1) /\ CreatePostStart(1, body)
    \/ CreatePostInsert(1)
    \/ \E dbOk \in BOOLEAN : CreateImagesDelete(1, dbOk)
    \/ \E dbOk \in BOOLEAN : CreateImagesInsert(1, dbOk)
    \/ \E storeOk \in BOOLEAN : CreateGenSelf(1, storeOk)
    \/ \E storeOk \in BOOLEAN : CreateGenPrev(1, storeOk)
    \/ \E id \in 1..MaxPosts, body \in ConcUpdateBodies :
          Fresh(1) /\ UpdatePostStart(1, id, body)
    \/ UpdateSelPrev(1)
    \/ UpdateSelNext(1)
    \/ SlugLookup(1)
    \/ UpdatePostWrite(1)
    \/ \E dbOk \in BOOLEAN : UpdateImagesDelete(1, dbOk)
    \/ \E dbOk \in BOOLEAN : UpdateImagesInsert(1, dbOk)
    \/ \E storeOk \in BOOLEAN : UpdateGenSelf(1, storeOk)
    \/ \E storeOk \in BOOLEAN : UpdateGenNew(1, storeOk)
    \/ \E storeOk \in BOOLEAN : UpdateGenOld(1, storeOk)
    \/ \E id \in 1..MaxPosts : Fresh(1) /\ DeletePostStart(1, id)
    \/ DeleteSelPrev(1)
    \/ DeleteSelNext(1)
    \/ DeletePostWrite(1)
    \/ \E storeOk \in BOOLEAN : DeletePostPage(1, storeOk)
    \/ \E storeOk \in BOOLEAN : DeleteGenNeighbours(1, storeOk)
    \/ \E ip \in IPs, postId \in 1..MaxPosts, body \in CommentBodies :
          Fresh(1) /\ CommentStart(1, ip, postId, body)
    \/ CommentSelPost(1)
    \/ CommentSelParent(1)
    \/ CommentCount(1)
    \/ CommentInsert(1)
    \/ \E cid \in 1..MaxComments, approved \in {0, 1} :
          Fresh(1) /\ ModerateStart(1, cid, approved)
    \/ ModerateWrite(1)
    \/ \E cid \in 1..MaxComments : Fresh(1) /\ DeleteCommentStart(1, cid)
    \/ DeleteCommentWrite(1)
    \/ \E storeOk \in BOOLEAN : GenOwningPost(1, storeOk)
    \/ Fresh(1) /\ RebuildStart(1)
    \/ \E storeOk \in BOOLEAN : RebuildRun(1, storeOk)

\* published posts of pairwise distinct instants
FailDbs ==
    {db \in InitDbs :
        /\ \A i \in DOMAIN db : db[i].is_published
        /\ \A i, j \in DOMAIN db : i # j => db[i].published_at # db[j].published_at}

InitFail == InitWith(FailDbs, {NoComments, SeedComment}, MaxTime, Schemas)

SpecFail == InitFail /\ [][NextFail]_vars

---------------------------------------------------------------------------
(* SpecRate: comment submissions processed one at a time on a single       *)
(* post, the clock advancing between them by a third of the rate window or *)
(* by the whole window                                                     *)

\* last instant of the clock
RateMaxTime == 130

\* number of submissions
RateOps == 6

RateSteps == {20, RateWindow}

RateBodies == [author : {<<"n">>}, content : {<<"c">>}, parent_id : {0}]

InitRate == InitWith({db \in ConcDbs : Len(db) = 1}, {NoComments}, MaxTime, InitSchema)

NextRate ==
    \/ \E d \in RateSteps : Quiet /\ now + d <= RateMaxTime /\ Tick(d)
    \/ \E ip \in IPs, body \in RateBodies :
          Quiet /\ ops < RateOps /\ CommentStart(1, ip, 1, body)
    \/ CommentSelPost(1)
    \/ CommentCount(1)
    \/ CommentInsert(1)
    \/ GenOwningPost(1, TRUE)

SpecRate == InitRate /\ [][NextRate]_vars

---------------------------------------------------------------------------
(* SpecComment: one comment request (submission, moderation or deletion)   *)
(* from a database that may hold an unapproved comment, an approved one or  *)
(* three fresh comments of one address, after any addresses have been put   *)
(* on the blacklist                                                        *)

InitComment ==
    InitWith(ConcDbs, {NoComments, SeedComment, ApprovedSeed, RecentComments}, MaxTime,
             InitSchema)

NextComment ==
    \/ \E ip \in IPs : Fresh(1) /\ BlacklistAdd(ip)
    \/ \E ip \in IPs, postId \in 1..MaxPosts, body \in CommentBodies :
          Fresh(1) /\ CommentStart(1, ip, postId, body)
    \/ CommentSelPost(1)
    \/ CommentSelParent(1)
    \/ CommentCount(1)
    \/ CommentInsert(1)
    \/ \E cid \in 1..MaxComments, approved \in {0, 1} :
          Fresh(1) /\ ModerateStart(1, cid, approved)
    \/ ModerateWrite(1)
    \/ \E cid \in 1..MaxComments : Fresh(1) /\ DeleteCommentStart(1, cid)
    \/ DeleteCommentWrite(1)
    \/ GenOwningPost(1, TRUE)

SpecComment == InitComment /\ [][NextComment]_vars

---------------------------------------------------------------------------
(* SpecCommentConc: one comment submission interleaved at every awaited     *)
(* operation with the deletion of a post or of a comment and with          *)
(* additions to the blacklist                                              *)

InitCommentConc ==
    InitWith(ConcDbs, {NoComments, SeedComment, RecentComments}, MaxTime, InitSchema)

NextCommentConc ==
    \/ \E ip \in IPs : ~isIpBlacklisted(ip) /\ BlacklistAdd(ip)
    \/ \E ip \in IPs, postId \in 1..MaxPosts, body \in CommentBodies :
          Fresh(1) /\ CommentStart(1, ip, postId, body)
    \/ CommentSelPost(1)
    \/ CommentSelParent(1)
    \/ CommentCount(1)
    \/ CommentInsert(1)
    \/ \E id \in 1..MaxPosts : Fresh(2) /\ DeletePostStart(2, id)
    \/ DeleteSelPrev(2)
    \/ DeleteSelNext(2)
    \/ DeletePostWrite(2)
    \/ DeletePostPage(2, TRUE)
    \/ DeleteGenNeighbours(2, TRUE)
    \/ \E cid \in 1..MaxComments : Fresh(2) /\ DeleteCommentStart(2, cid)
    \/ DeleteCommentWrite(2)
    \/ \E r \in ReqIds : GenOwningPost(r, TRUE)

SpecCommentConc == InitCommentConc /\ [][NextCommentConc]_vars

---------------------------------------------------------------------------
(* SpecRebuild: the bulk rebuild run twice, one run after the other, on a   *)
(* database that may hold drafts, unpublished posts and a post whose slug  *)
(* is empty, and a page store that is empty or holds the page of every     *)
(* post that has a slug; page views are recorded and the year may change   *)
(* at any moment, a run in progress or not; no put throws                  *)

\* number of views recorded for one post
MaxViews == 1

\* db with the draft flag set on the posts of D
WithDrafts(db, D) ==
    [i \in DOMAIN db |-> [db[i] EXCEPT !.is_draft = IF i \in D THEN 1 ELSE 0]]

DraftDbs ==
    {WithDrafts(db, D) :
        db \in {d \in InitDbs :
                  \A i, j \in DOMAIN d : i # j => d[i].published_at # d[j].published_at},
        D \in SUBSET (1..MaxPosts)}

\* db with the slug of its first post emptied, as PUT /api/posts/:id with
\* the body {slug: ""} leaves it
WithEmptySlug(db) ==
    [i \in DOMAIN db |-> IF i = 1 THEN [db[i] EXCEPT !.slug = <<>>] ELSE db[i]]

RebuildDbs ==
    DraftDbs \cup {WithEmptySlug(db) : db \in {d \in DraftDbs \ {<<>>} :
                                                \A i \in DOMAIN d : d[i].is_draft = 0}}

InitRebuild ==
    /\ posts \in RebuildDbs
    /\ rowids = [i \in DOMAIN posts |-> i]
    /\ schema \in InitSchema
    /\ nextId = Cardinality(DOMAIN posts) + 1
    /\ comments \in {cm \in {NoComments, ApprovedSeed} :
                       \A c \in DOMAIN cm : cm[c].post_id \in DOMAIN posts}
    /\ nextCid = Cardinality(DOMAIN comments) + 1
    /\ blacklist = {}
    /\ views = NoViews
    /\ settings = InitSettings
    /\ now = 1
    /\ pages \in {NoPages}
                 \cup GenAll(NoPages, SelectSeq(RowsOf(SelectOrder(DOMAIN posts)), HasSlug))
    /\ reqs = [r \in ReqIds \cup {ViewerId} |-> Idle]
    /\ ops = 0

NextRebuild ==
    \/ Fresh(1) /\ RebuildStart(1)
    \/ reqs[1].kind = "rebuild" /\ reqs[1].pc = "done" /\ Fresh(2) /\ RebuildStart(2)
    \/ \E r \in ReqIds : RebuildRun(r, TRUE)
    \/ \E id \in 1..MaxPosts : ViewCount(id) < MaxViews /\ ViewStart(ViewerId, id)
    \/ RecordView(ViewerId)
    \/ now < YearLength /\ Tick(YearLength)

SpecRebuild == InitRebuild /\ [][NextRebuild]_vars

\* one run of the bulk rebuild on the same databases and page stores
NextRebuildOnce ==
    \/ Fresh(1) /\ RebuildStart(1)
    \/ RebuildRun(1, TRUE)

SpecRebuildOnce == InitRebuild /\ [][NextRebuildOnce]_vars

---------------------------------------------------------------------------
(* SpecAdmin: one request to a route of the api group with any method and  *)
(* any Authorization header, its handler and cascade run to completion     *)
(* with no store failure                                                   *)

Methods == {"OPTIONS", "GET", "PUT", "POST", "DELETE"}

\* "Basic" followed by the base64 of u:p, that base64 with a tab inside it,
\* the base64 of u:p:p, u:q, v:p and u, a character that is no base64 digit
\* and nothing; another scheme; no header.  The Headers object strips the
\* whitespace at both ends of a header value, so an encoded part is never
\* whitespace alone: "Basic" followed by a tab arrives as "Basic" alone.
Headers ==
    {NoHeader,
     [scheme |-> "Basic", encoded |-> <<"d", "T", "p", "w">>],
     [scheme |-> "Basic", encoded |-> <<"d", "T", "\t", "p", "w">>],
     [scheme |-> "Basic", encoded |-> <<"d", "T", "p", "w", "O", "n", "A", "=">>],
     [scheme |-> "Basic", encoded |-> <<"d", "T", "p", "x">>],
     [scheme |-> "Basic", encoded |-> <<"d", "j", "p", "w">>],
     [scheme |-> "Basic", encoded |-> <<"d", "Q", "=", "=">>],
     [scheme |-> "Basic", encoded |-> <<"!">>],
     [scheme |-> "Basic", encoded |-> <<>>],
     [scheme |-> "Bearer", encoded |-> <<"d", "T", "p", "w">>]}

SettingKeys == {"site_url", "blog_title"}

\* the bodies of PUT /settings: a value for each key of a set of keys
SettingsBodies ==
    UNION {[K -> {"v0", "v1"}] : K \in (SUBSET SettingKeys) \ {{}}}

\* a response of the api group that ends the request: of BasicAuth, of cors
\* or of a handler that writes nothing the model tracks
AdminRespond(method, header, status) ==
    /\ reqs' = [reqs EXCEPT ![1] =
          [Rejected("admin", 0, status) EXCEPT
              !.upd = [method |-> method, header |-> header]]]
    /\ UNCHANGED <<posts, rowids, nextId, pages, comments, nextCid, blacklist, views,
                   settings, now, ops, schema>>

\* the rows of ip_blacklist with the given id: none, since the INSERT of POST
\* /ip-blacklist names ip_address and reason only and the column id TEXT
\* PRIMARY KEY has no default, so the id of every row is NULL
BlacklistRowsWithId(id) == {}

\* api.delete('/ip-blacklist/:id'): DELETE FROM ip_blacklist WHERE id = ?; the
\* response is 200 whether or not a row went
BlacklistRemove(id) ==
    /\ blacklist' = blacklist \ BlacklistRowsWithId(id)
    /\ reqs' = [reqs EXCEPT ![1] = Rejected("unlist", 0, 200)]
    /\ UNCHANGED <<posts, rowids, nextId, pages, comments, nextCid, views, settings,
                   now, ops, schema>>

\* One request to the api group: BasicAuth, then cors, which answers an
\* OPTIONS request with 204, then the handler of the route, of which this is
\* the first step.  The routes: the GET routes that list posts, comments,
\* settings, statistics, categories, tags, images or blacklist entries (200);
\* GET /posts/:id (404 without the row); POST /posts; PUT and DELETE
\* /posts/:id; PUT and DELETE /comments/:id; PUT /settings; POST
\* /ip-blacklist and DELETE /ip-blacklist/:id; POST /rebuild-all.  The routes
\* that write categories, tags and images and the routes of /links write
\* nothing of the state of this model and are left out.
AdminRequest(method, header, bodies, ips, ids) ==
    IF BasicAuth(method, header) # 0
    THEN AdminRespond(method, header, BasicAuth(method, header))
    ELSE \/ method = "OPTIONS" /\ AdminRespond(method, header, 204)
         \/ method = "GET" /\ AdminRespond(method, header, 200)
         \/ method = "GET" /\ \E id \in ids :
               AdminRespond(method, header, IF id \in Live THEN 200 ELSE 404)
         \/ method = "POST" /\ \E body \in CreateBodies : CreatePostStart(1, body)
         \/ method = "PUT" /\ \E id \in ids, body \in UpdateBodies :
               UpdatePostStart(1, id, body)
         \/ method = "DELETE" /\ \E id \in ids : DeletePostStart(1, id)
         \/ method = "PUT" /\ \E cid \in 1..MaxComments, approved \in {0, 1} :
               ModerateStart(1, cid, approved)
         \/ method = "DELETE" /\ \E cid \in 1..MaxComments : DeleteCommentStart(1, cid)
         \/ method = "PUT" /\ \E body \in bodies : SettingsPut(body)
         \/ method = "POST" /\ \E ip \in ips : BlacklistAdd(ip)
         \/ method = "DELETE" /\ \E id \in ids : BlacklistRemove(id)
         \/ method = "POST" /\ RebuildStart(1)

\* published posts of pairwise distinct instants, with or without a comment
\* waiting for moderation, on either schema
InitAdmin == InitWith(FailDbs, {NoComments, SeedComment}, 1, Schemas)

NextAdmin ==
    \/ \E method \in Methods, header \in Headers :
          Fresh(1) /\ AdminRequest(method, header, SettingsBodies, IPs, 1..MaxPosts)
    \/ SlugLookup(1)
    \/ CreatePostInsert(1)
    \/ CreateImagesDelete(1, TRUE)
    \/ CreateImagesInsert(1, TRUE)
    \/ CreateGenSelf(1, TRUE)
    \/ CreateGenPrev(1, TRUE)
    \/ UpdateSelPrev(1)
    \/ UpdateSelNext(1)
    \/ UpdatePostWrite(1)
    \/ UpdateImagesDelete(1, TRUE)
    \/ UpdateImagesInsert(1, TRUE)
    \/ UpdateGenSelf(1, TRUE)
    \/ UpdateGenNew(1, TRUE)
    \/ UpdateGenOld(1, TRUE)
    \/ DeleteSelPrev(1)
    \/ DeleteSelNext(1)
    \/ DeletePostWrite(1)
    \/ DeletePostPage(1, TRUE)
    \/ DeleteGenNeighbours(1, TRUE)
    \/ ModerateWrite(1)
    \/ DeleteCommentWrite(1)
    \/ GenOwningPost(1, TRUE)
    \/ RebuildRun(1, TRUE)

SpecAdmin == InitAdmin /\ [][NextAdmin]_vars

---------------------------------------------------------------------------
(* SpecRace: comment submissions of two connections that interleave between *)
(* the count query and the insert, all within one minute                    *)

NextRace ==
    \/ \E r \in ReqIds, ip \in IPs, body \in RateBodies :
          ops < RateOps /\ CommentStart(r, ip, 1, body)
    \/ \E r \in ReqIds : CommentSelPost(r)
    \/ \E r \in ReqIds : CommentCount(r)
    \/ \E r \in ReqIds : CommentInsert(r)
    \/ \E r \in ReqIds : GenOwningPost(r, TRUE)

SpecRace == InitRate /\ [][NextRace]_vars

---------------------------------------------------------------------------
(* SpecLive: one create, update, delete, moderation or rebuild request with *)
(* no store failure; the steps of the background task the request hands to  *)
(* waitUntil are taken whenever they stay enabled                           *)

NextLive ==
    \/ \E body \in ConcCreateBodies : Fresh(1) /\ CreatePostStart(1, body)
    \/ CreatePostInsert(1)
    \/ CreateImagesDelete(1, TRUE)
    \/ CreateImagesInsert(1, TRUE)
    \/ CreateGenSelf(1, TRUE)
    \/ CreateGenPrev(1, TRUE)
    \/ \E id \in 1..MaxPosts, body \in ConcUpdateBodies :
          Fresh(1) /\ UpdatePostStart(1, id, body)
    \/ UpdateSelPrev(1)
    \/ UpdateSelNext(1)
    \/ SlugLookup(1)
    \/ UpdatePostWrite(1)
    \/ UpdateImagesDelete(1, TRUE)
    \/ UpdateImagesInsert(1, TRUE)
    \/ UpdateGenSelf(1, TRUE)
    \/ UpdateGenNew(1, TRUE)
    \/ UpdateGenOld(1, TRUE)
    \/ \E id \in 1..MaxPosts : Fresh(1) /\ DeletePostStart(1, id)
    \/ DeleteSelPrev(1)
    \/ DeleteSelNext(1)
    \/ DeletePostWrite(1)
    \/ DeletePostPage(1, TRUE)
    \/ DeleteGenNeighbours(1, TRUE)
    \/ \E cid \in 1..MaxComments, approved \in {0, 1} :
          Fresh(1) /\ ModerateStart(1, cid, approved)
    \/ ModerateWrite(1)
    \/ GenOwningPost(1, TRUE)
    \/ Fresh(1) /\ RebuildStart(1)
    \/ RebuildRun(1, TRUE)

\* the promise passed to waitUntil runs to its end
BackgroundFairness ==
    /\ WF_vars(CreateGenSelf(1, TRUE))
    /\ WF_vars(CreateGenPrev(1, TRUE))
    /\ WF_vars(UpdateGenSelf(1, TRUE))
    /\ WF_vars(UpdateGenNew(1, TRUE))
    /\ WF_vars(UpdateGenOld(1, TRUE))
    /\ WF_vars(DeleteGenNeighbours(1, TRUE))
    /\ WF_vars(GenOwningPost(1, TRUE))
    /\ WF_vars(RebuildRun(1, TRUE))

SpecLive == InitConc /\ [][NextLive]_vars /\ BackgroundFairness

---------------------------------------------------------------------------
(* Vocabulary of the properties *)

Published == {i \in Live : posts[i].is_published}

TimeOf(i) == posts[i].published_at

DistinctTimes(S) == \A i, j \in S : i # j => TimeOf(i) # TimeOf(j)

\* position of a published post in publish order (timestamps distinct)
Rank(i) == Cardinality({j \in Published : TimeOf(j) < TimeOf(i)}) + 1

\* the posts of S dated immediately before / after instant t
JustBefore(S, t) ==
    {j \in S : TimeOf(j) < t /\ ~\E k \in S : TimeOf(j) < TimeOf(k) /\ TimeOf(k) < t}

JustAfter(S, t) ==
    {j \in S : TimeOf(j) > t /\ ~\E k \in S : TimeOf(k) < TimeOf(j) /\ TimeOf(k) > t}

\* the link a page shows for a neighbour drawn from S (none when S is empty)
LinksTo(S) == IF S = {} THEN {NoLink} ELSE {Href(posts[j].slug) : j \in S}

HasPage(i) == posts[i].slug \in DOMAIN pages

PageOf(i) == pages[posts[i].slug]

Finished(r, kind, status) ==
    reqs[r].kind = kind /\ reqs[r].pc = "done" /\ reqs[r].status = status

---------------------------------------------------------------------------
(* Properties under Spec *)

\* C1 (as claimed): once a sequence of create, update and delete requests
\* has run, one at a time and each with its cascade completed, the stored page
\* of every published post shows as prev and next exactly its current
\* published neighbours by publish timestamp.
C1_PagesShowCurrentNeighbours ==
    (Quiet /\ DistinctTimes(Live)) =>
      \A i \in Published :
        /\ HasPage(i)
        /\ PageOf(i).prev \in LinksTo(JustBefore(Published, TimeOf(i)))
        /\ PageOf(i).next \in LinksTo(JustAfter(Published, TimeOf(i)))

\* C3: among published posts with pairwise distinct timestamps, the
\* renderer's neighbour lookup for the post of rank i returns the post of rank
\* i - 1 as prev and the post of rank i + 1 as next, and nothing at the ends.
C3_NeighbourLookup ==
    DistinctTimes(Published) =>
      \A i \in Published :
        /\ RenderPrev(TimeOf(i)) = {j \in Published : Rank(j) = Rank(i) - 1}
        /\ RenderNext(TimeOf(i)) = {j \in Published : Rank(j) = Rank(i) + 1}

\* three published posts at distinct instants, and the middle one's page,
\* generated by the completed run, links the first as prev and the last as
\* next
C3_Witness ==
    /\ DistinctTimes(Published)
    /\ \E i, j, k \in Published :
          /\ TimeOf(i) < TimeOf(j) /\ TimeOf(j) < TimeOf(k)
          /\ j \in reqs[1].regen /\ reqs[1].pc = "done"
          /\ HasPage(j)
          /\ HasSlug(posts[i]) /\ PageOf(j).prev = Href(posts[i].slug)
          /\ PageOf(j).next = Href(posts[k].slug)

\* C4 (as claimed): an update that moves published post P from one instant
\* to another regenerates P, its published neighbours at the old instant and
\* its published neighbours at the new instant, and no other post.
C4_UpdateRegeneratesOldAndNew ==
    \A r \in ReqIds :
      ( /\ Finished(r, "update", 200)
        /\ reqs[r].id \in Live /\ posts[reqs[r].id] = reqs[r].snap
        /\ reqs[r].orig.is_published /\ reqs[r].snap.is_published
        /\ reqs[r].orig.published_at # reqs[r].snap.published_at
        /\ DistinctTimes(Live)
        /\ \A j \in Live : TimeOf(j) # reqs[r].orig.published_at )
      =>
        LET others == Published \ {reqs[r].id}
            old == reqs[r].orig.published_at
            new == reqs[r].snap.published_at
        IN  reqs[r].regen =
              {reqs[r].id} \cup JustBefore(others, old) \cup JustAfter(others, old)
                           \cup JustBefore(others, new) \cup JustAfter(others, new)

\* C5 (as claimed): deleting post P regenerates exactly its published
\* neighbours and removes P's page, whatever unpublished posts lie between.
C5_DeleteRegeneratesNeighbours ==
    \A r \in ReqIds :
      ( /\ Finished(r, "delete", 200)
        /\ reqs[r].snap.is_published
        /\ DistinctTimes(Live)
        /\ \A j \in Live : TimeOf(j) # reqs[r].snap.published_at )
      =>
        /\ reqs[r].regen = JustBefore(Published, reqs[r].snap.published_at)
                             \cup JustAfter(Published, reqs[r].snap.published_at)
        /\ reqs[r].snap.slug \notin DOMAIN pages

C2_SlugsUnique ==
    \A i, j \in Live : i # j => posts[i].slug # posts[j].slug

\* two requests chose the same free slug; the row of the first is stored with
\* it and the write of the second was refused by the table
C2_Witness ==
    \E r, q \in ReqIds :
      /\ r # q
      /\ reqs[r].kind \in {"create", "update"} /\ reqs[q].kind \in {"create", "update"}
      /\ reqs[r].status = 500 /\ reqs[r].pc = "done"
      /\ reqs[q].id \in Live /\ reqs[r].id # reqs[q].id
      /\ reqs[q].snap # NoPost /\ reqs[q].snap.slug = reqs[r].snap.slug
      /\ posts[reqs[q].id].slug = reqs[r].snap.slug
      /\ reqs[r].id \in Live => posts[reqs[r].id].slug # reqs[r].snap.slug

\* C7 (as claimed): once two concurrently running requests and their
\* cascades have all completed, the stored page of every published post is a
\* page the renderer produces for that post from the final database.
C7_ConcurrentCascadesConverge ==
    (Quiet /\ DistinctTimes(Live)) =>
      \A i \in Published : HasPage(i) /\ PageOf(i) \in RenderPages(posts[i])

\* the posts a cascade that a throwing put ended had still to generate: the
\* rest of the stage it ended in and the posts of its later stages
SkippedBy(r) ==
    LET q == reqs[r]
        t == q.snap.published_at
    IN  q.left \cup
        (CASE q.kind = "create" /\ q.at = "gen_self" ->
                FirstOf(CreatePrevRows(t)) \ {0}
          [] q.kind = "update" /\ q.at = "gen_self" ->
                ((FirstOf(UpdatePrevRows(t)) \cup FirstOf(UpdateNextRows(t))) \ {0})
                  \cup (Range(q.nbrs) \cap Live)
          [] q.kind = "update" /\ q.at = "gen_new" -> Range(q.nbrs) \cap Live
          [] q.kind = "update" /\ q.at = "gen_old" -> Range(q.ids) \cap Live
          [] OTHER -> {})

\* C8 (as claimed): in every cascade, when the put of one post's page
\* throws, the failure is caught and every remaining post of the cascade is
\* still generated: no cascade ends leaving a post it had to generate.
C8_FailuresAreCaught ==
    \A r \in ReqIds : reqs[r].pc = "aborted" => SkippedBy(r) = {}

\* the steps at which a page-store operation of the request is pending
PageStoreSteps ==
    {"gen_self", "gen_prev", "gen_new", "gen_old", "del_page", "gen_nbrs", "gen_post"}

\* C9 (as claimed): for create, update and delete of a post and for comment
\* moderation, the success response is issued once the database write is
\* durable and waits for no page-store operation: whenever a regeneration or
\* a page deletion of the request is pending, the response has been issued,
\* and a response issued means the write is in the database.
C9_ResponseWaitsForNoPageStoreOp ==
    \A r \in ReqIds :
      reqs[r].kind \in {"create", "update", "delete", "moderate", "uncomment"} =>
        /\ reqs[r].pc \in PageStoreSteps => reqs[r].status \in {200, 201}
        /\ (reqs[r].kind = "create" /\ reqs[r].status = 201) =>
              reqs[r].id \in Live /\ posts[reqs[r].id] = reqs[r].snap
        /\ (reqs[r].kind = "update" /\ reqs[r].status = 200 /\ reqs[r].id \in Live) =>
              posts[reqs[r].id] = reqs[r].snap
        /\ (reqs[r].kind = "delete" /\ reqs[r].status = 200) => reqs[r].id \notin Live
        /\ (reqs[r].kind = "moderate" /\ reqs[r].status = 200) =>
              comments[reqs[r].upd.cid].is_approved = reqs[r].upd.is_approved
        /\ (reqs[r].kind = "uncomment" /\ reqs[r].status = 200) =>
              reqs[r].upd.cid \notin DOMAIN comments

\* the stored comments of ip created in the window (t - RateWindow, t]
InWindow(ip, t) ==
    {d \in DOMAIN comments :
        /\ comments[d].ip_address = ip
        /\ comments[d].created_at > t - RateWindow
        /\ comments[d].created_at <= t}

\* C10: with submissions processed one at a time, a submission is answered
\* 429, and stores nothing, exactly when 3 comments of its IP were stored in
\* the 60 seconds before it, and is accepted otherwise (so the first three
\* within a window and one made once the window has elapsed are accepted);
\* hence no 60-second window ending at a stored comment holds more than 3
\* comments of one IP.
C10_RateLimit ==
    /\ \A c \in DOMAIN comments :
          Cardinality(InWindow(comments[c].ip_address, comments[c].created_at)) <= RateLimit
    /\ \A r \in ReqIds :
          (reqs[r].kind = "comment" /\ reqs[r].pc \in {"gen_post", "done", "aborted"}) =>
            LET before == InWindow(reqs[r].upd.ip_address, reqs[r].upd.checked)
                            \ {reqs[r].snap.id}
            IN  /\ reqs[r].status \in {201, 429}
                /\ reqs[r].status = 429 <=> Cardinality(before) >= RateLimit
                /\ reqs[r].status = 429 => reqs[r].pc = "done" /\ reqs[r].snap = NoPost

\* a fourth submission within 60 seconds of three stored ones was answered
\* 429, and the comments of that IP are still the three
C10_Witness ==
    \E r \in ReqIds :
      /\ reqs[r].kind = "comment" /\ reqs[r].status = 429
      /\ Cardinality(InWindow(reqs[r].upd.ip_address, now)) = RateLimit
      /\ Cardinality({d \in DOMAIN comments :
                        comments[d].ip_address = reqs[r].upd.ip_address}) = RateLimit
      /\ \E d \in DOMAIN comments : comments[d].created_at < now

\* C11: the first step of a comment submission answers 403 exactly when the
\* address is in the blacklist, whatever the post id, the body and the
\* address's recent comments; no later step answers 403; the step that
\* answers 403 ends the request and stores no comment.
C11_BlacklistFirst ==
    [][\A r \in ReqIds :
          /\ (Fresh(r) /\ reqs'[r].kind = "comment") =>
                (reqs'[r].status = 403 <=> isIpBlacklisted(reqs'[r].upd.ip_address))
          /\ (reqs'[r].kind = "comment" /\ reqs'[r].status = 403 /\ reqs'[r] # reqs[r]) =>
                /\ Fresh(r)
                /\ reqs'[r].pc = "done" /\ reqs'[r].snap = NoPost
                /\ comments' = comments /\ nextCid' = nextCid]_vars

\* a submission for a post that does not exist, from a blacklisted address
\* that has three fresh comments, was answered 403
C11_Witness ==
    \E r \in ReqIds :
      /\ reqs[r].kind = "comment" /\ reqs[r].status = 403
      /\ reqs[r].id \notin Live
      /\ RateLimited(reqs[r].upd.ip_address, now)

\* a step of the second of two consecutive rebuild runs: its SELECT, a read
\* of the renderer or the put of one page.  The puts of a run write pairwise
\* different keys, so the run leaves the page store as it found it exactly
\* when each of its steps does.
SecondRun ==
    /\ reqs[1].kind = "rebuild" /\ reqs[1].pc = "done"
    /\ reqs[2].kind = "rebuild" /\ reqs[2].pc = "rebuild"

\* a page without its copyright year
WithoutYear(doc) == [doc EXCEPT !.year = 0]

\* C12 (as claimed): the second of two rebuild runs with no post, comment or
\* settings mutation in between leaves the page store with the key set and,
\* the copyright year apart, the content per key that the first run left:
\* none of its steps changes a key or, but for the year, the content of a
\* page.
C12_RebuildTwiceSamePages ==
    [][SecondRun =>
        /\ DOMAIN pages' = DOMAIN pages
        /\ \A k \in DOMAIN pages : WithoutYear(pages'[k]) = WithoutYear(pages[k])]_vars

\* C13: a bulk rebuild that has completed has regenerated the page of every
\* post that is published and not a draft, and of no other post.
C13_RebuildPublishedNonDrafts ==
    \A r \in ReqIds :
        reqs[r].kind = "rebuild" /\ reqs[r].pc = "done" =>
            reqs[r].regen = {i \in Live : posts[i].is_published /\ posts[i].is_draft = 0}

\* C14: when no request is running, the keys of the page store are exactly
\* the slugs of the existing posts.
C14_KeysAreCurrentSlugs ==
    Quiet => DOMAIN pages = {posts[i].slug : i \in Live}

\* the user-id and the password of the Basic credentials of a header (RFC
\* 7617: the password is what follows the first colon) are the two secrets
CarriesSecrets(header) ==
    /\ header.scheme = "Basic"
    /\ ~AtobThrows(header.encoded)
    /\ atob(header.encoded) = ADMIN_USERNAME \o <<Colon>> \o ADMIN_PASSWORD

\* C15: a request to the api group other than OPTIONS whose header does not
\* carry the two secrets is answered 400 or 401 and changes neither the
\* database nor the page store; an OPTIONS request is not rejected whatever
\* its header.
C15_AdminNeedsCredentials ==
    [][\A method \in Methods, header \in Headers :
          AdminRequest(method, header, SettingsBodies, IPs, 1..MaxPosts) =>
              /\ (method # "OPTIONS" /\ ~CarriesSecrets(header)) =>
                    /\ reqs'[1].status \in {400, 401}
                    /\ UNCHANGED <<posts, rowids, nextId, pages, comments, nextCid,
                                   blacklist, views, settings, schema>>
              /\ method = "OPTIONS" => reqs'[1].status = 204]_vars

\* C20: after PUT /settings with a body, every key of the body is in the
\* settings table with the value of the body, and so in what GET /settings
\* returns, whether or not the table held the key before.
C20_SettingsUpsert ==
    [][\A body \in SettingsBodies :
          SettingsPut(body) =>
              \A k \in DOMAIN body :
                  k \in DOMAIN SettingsGet' /\ SettingsGet'[k] = body[k]]_vars

\* comment c is unapproved and no moderation request has written its flag
NeverApproved(c) ==
    /\ comments[c].is_approved = 0
    /\ \A r \in ReqIds :
          ~(reqs[r].kind = "moderate" /\ reqs[r].status = 200
              /\ reqs[r].upd.cid = c)

\* C16: every comment that a step stores is stored unapproved, and in every
\* state no stored page shows a comment that was never approved.
C16_UnapprovedNeverShown ==
    /\ [][\A c \in (DOMAIN comments') \ (DOMAIN comments) :
              comments'[c].is_approved = 0]_vars
    /\ [](\A c \in DOMAIN comments :
              NeverApproved(c) => \A k \in DOMAIN pages : c \notin pages[k].shown)

\* an accepted submission has stored its comment and regenerated the page of
\* its post, which shows the approved comment of the post and not the new one
C16_Witness ==
    /\ Finished(1, "comment", 201)
    /\ reqs[1].snap.id \in DOMAIN comments
    /\ NeverApproved(reqs[1].snap.id)
    /\ reqs[1].id \in reqs[1].regen
    /\ PageOf(reqs[1].id).shown # {}
    /\ reqs[1].snap.id \notin PageOf(reqs[1].id).shown

\* C17: the step that completes the regeneration dispatched by an accepted
\* comment submission stores a page of the owning post whose comment count is
\* one more than the count on the page stored before.
C17_CountChangesOnSubmission ==
    [][(/\ reqs[1].kind = "comment" /\ reqs[1].pc = "gen_post"
        /\ reqs'[1].pc = "done"
        /\ HasPage(reqs[1].id))
          => pages'[posts[reqs[1].id].slug].count = PageOf(reqs[1].id).count + 1]_vars

\* a step of a moderation or of a comment deletion
ModerationStep ==
    \/ reqs[1].kind \in {"moderate", "uncomment"}
    \/ reqs'[1].kind \in {"moderate", "uncomment"}

\* the key of the page of the post that owns the comment of the request
OwnerKeys == IF reqs'[1].id \in Live THEN {posts[reqs'[1].id].slug} ELSE {}

\* C18: no step of a moderation or of a comment deletion changes the publish
\* timestamp or the slug of a post, or writes or deletes a key of the page
\* store other than the slug of the comment's owning post, and the step that
\* completes the request stores a newly rendered page of the owning post.
C18_OnlyOwningPage ==
    [][ModerationStep =>
        /\ DOMAIN posts' = DOMAIN posts
        /\ \A i \in Live :
              /\ posts'[i].published_at = posts[i].published_at
              /\ posts'[i].slug = posts[i].slug
        /\ \A k \in ((DOMAIN pages) \cup (DOMAIN pages')) \ OwnerKeys :
              k \in DOMAIN pages /\ k \in DOMAIN pages' /\ pages'[k] = pages[k]
        /\ (reqs[1].pc = "gen_post" /\ reqs'[1].pc = "done") =>
              \A k \in OwnerKeys :
                  k \in DOMAIN pages' /\ pages'[k] \in RenderPages(posts[reqs[1].id])]_vars

\* an approval has completed: the page of the owning post shows the comment
\* and the page store holds pages of other posts
C18_Witness ==
    /\ Finished(1, "moderate", 200)
    /\ reqs[1].upd.cid \in PageOf(reqs[1].id).shown
    /\ Cardinality(DOMAIN pages) > 1

\* a row that is published and not a draft
PublicRow(p) == p.is_published /\ p.is_draft = 0

\* C19: the rows that the renderer's lookups select for any post, and the rows
\* that an update and a delete request have captured as the neighbours of
\* their post, are published and not drafts.
C19_LookupsSelectPublicPosts ==
    /\ \A i \in Live :
          \A j \in RenderPrev(TimeOf(i)) \cup RenderNext(TimeOf(i)) :
              PublicRow(posts[j])
    /\ \A r \in ReqIds :
          /\ (reqs[r].kind = "update" /\ reqs[r].pc = "write") =>
                \A j \in Range(reqs[r].nbrs) : PublicRow(posts[j])
          /\ (reqs[r].kind = "delete" /\ reqs[r].pc = "write") =>
                \A p \in Range(reqs[r].nbrs) : PublicRow(p)

\* slug is the slug of a post other than post e
HeldByDifferent(slug, e) == \E i \in Live \ {e} : posts[i].slug = slug

\* the base slug if no post other than e holds it, otherwise base-k for the
\* smallest k >= 1 such that no post other than e holds base-k
SmallestFree(base, e) ==
    IF ~HeldByDifferent(base, e) THEN base
    ELSE Suffixed(base,
            CHOOSE k \in 1..(Cardinality(Live) + 1) :
                /\ ~HeldByDifferent(Suffixed(base, k), e)
                /\ \A j \in 1..(k - 1) : HeldByDifferent(Suffixed(base, j), e))

\* the step of r that ends its slug loop: the lookup that finds the candidate
\* free, made by the start of a create, by the last SELECT of an update or by
\* a later iteration
EndsSlugLoop(r) ==
    /\ reqs[r].pc \in {"idle", "sel_next", "slug"}
    /\ \/ reqs'[r].kind = "create" /\ reqs'[r].pc = "insert"
       \/ /\ reqs'[r].kind = "update" /\ reqs'[r].pc = "write"
          /\ "title" \in DOMAIN reqs'[r].upd
          /\ reqs'[r].upd.title # reqs'[r].orig.title

\* C21: with requests served one after the other, the slug that a create or
\* an update request obtains from generateUniqueSlug is the base slug of the
\* title when no other post holds it, otherwise base-k for the smallest free
\* k >= 1, and it is the slug of no different post.
C21_SlugIsSmallestFree ==
    [][\A r \in ReqIds :
          EndsSlugLoop(r) =>
              /\ reqs'[r].snap.slug =
                    SmallestFree(BaseSlug(reqs'[r].snap.title), reqs'[r].id)
              /\ ~HeldByDifferent(reqs'[r].snap.slug, reqs'[r].id)]_vars

\* a post was deleted and a later create or re-title obtained the slug it had
\* held, the base slug of the title, and the row of the request is stored
\* with it
C21_Witness ==
    /\ Finished(1, "delete", 200)
    /\ reqs[2].kind \in {"create", "update"} /\ reqs[2].id \in Live
    /\ reqs[2].suffix = 1
    /\ posts[reqs[2].id].slug = reqs[1].snap.slug
    /\ reqs[1].snap.slug = BaseSlug(reqs[2].snap.title)

\* C22: a step changes the slug of a post only if it is the write of an update
\* request for that post whose body has a title that differs from the stored
\* title.
C22_SlugChangesOnlyWithTitle ==
    [][\A i \in Live \cap DOMAIN posts' :
          posts'[i].slug # posts[i].slug =>
              \E r \in ReqIds :
                  /\ reqs[r].kind = "update" /\ reqs[r].pc = "write" /\ reqs[r].id = i
                  /\ "title" \in DOMAIN reqs[r].upd
                  /\ reqs[r].upd.title # reqs[r].orig.title]_vars

\* C23: a submission with a parent id that has passed the checks, and every
\* comment stored with a parent, has as parent a comment of the same post.
C23_ParentOnSamePost ==
    /\ \A r \in ReqIds :
          (/\ reqs[r].kind = "comment" /\ reqs[r].pc \in {"insert", "gen_post"}
           /\ reqs[r].upd.parent_id # 0) =>
              /\ reqs[r].upd.parent_id \in DOMAIN comments
              /\ comments[reqs[r].upd.parent_id].post_id = reqs[r].upd.post_id
    /\ \A c \in DOMAIN comments :
          comments[c].parent_id # 0 =>
              /\ comments[c].parent_id \in DOMAIN comments
              /\ comments[comments[c].parent_id].post_id = comments[c].post_id

\* the published posts of the earliest publish timestamp
Earliest == {i \in Published : \A j \in Published : TimeOf(i) <= TimeOf(j)}

\* the ways the renderer's next lookups of the published posts may resolve
NextChoices ==
    {f \in [Published -> Published \cup {0}] :
        \A i \in Published : f[i] \in FirstOf(RenderNext(TimeOf(i)))}

\* the posts visited by following f from post i
RECURSIVE Visited(_, _)
Visited(f, i) == IF i = 0 THEN {} ELSE {i} \cup Visited(f, f[i])

\* C24: however the renderer's lookups resolve, next(X) = Y exactly when
\* prev(Y) = X for all published posts X and Y, and following next from an
\* earliest published post visits every published post.
C24_TiesKeepTotalOrder ==
    /\ \A x, y \in Published :
          \A a \in FirstOf(RenderNext(TimeOf(x))), b \in FirstOf(RenderPrev(TimeOf(y))) :
              a = y <=> b = x
    /\ \A f \in NextChoices : \A e \in Earliest : Visited(f, e) = Published

\* C25: a submission is inserted only after its count query found fewer than
\* 3 comments of its address, and nothing orders the insert of one connection
\* and the count query of another: with two connections the comments of one
\* address in a 60-second window ending at a stored comment can exceed 3, by
\* at most the one submission that was between its count query and its insert.
C25_RaceExceedsLimitByOne ==
    \A c \in DOMAIN comments :
        Cardinality(InWindow(comments[c].ip_address, comments[c].created_at))
            <= RateLimit + Cardinality(ReqIds) - 1

\* four comments of one address are stored within one window; the submission
\* of one connection ran its count query before the other connection stored
\* the third comment and inserted afterwards
C25_Witness ==
    \E c \in DOMAIN comments :
        /\ Cardinality(InWindow(comments[c].ip_address, comments[c].created_at)) > RateLimit
        /\ \E r, q \in ReqIds :
              /\ r # q
              /\ reqs[r].kind = "comment" /\ reqs[r].status = 201
              /\ reqs[q].kind = "comment" /\ reqs[q].status = 201
              /\ reqs[r].upd.ip_address = comments[c].ip_address
              /\ reqs[q].upd.ip_address = comments[c].ip_address

\* the positions of a request whose background task has been dispatched and
\* has not ended
CascadePcs == {"gen_self", "gen_prev", "gen_new", "gen_old", "gen_nbrs", "gen_post", "rebuild"}

\* C26: a request whose background task has been dispatched eventually has
\* that task completed, with the page of every existing post of its
\* regeneration set stored.
C26_CascadesComplete ==
    \A r \in ReqIds :
        (reqs[r].pc \in CascadePcs) ~>
            (reqs[r].pc = "done" /\ \A i \in reqs[r].regen \cap Live : HasPage(i))

\* a delete has completed a cascade that regenerated the neighbour of its post
C26_Witness ==
    /\ Finished(1, "delete", 200)
    /\ reqs[1].regen # {}
    /\ \A i \in reqs[1].regen : HasPage(i)

\* posts other than the one a slug loop excludes
OtherPosts(r) == Live \ {reqs[r].id}

\* C27: with requests served one after the other, a slug loop has made at
\* most one lookup per other post when it goes on, so that it ends with its
\* (number of posts + 1)-th lookup at the latest; the slug it ends with is not
\* empty, and the step that ends it answers no error.
C27_SlugLoopTerminates ==
    \A r \in ReqIds :
        /\ reqs[r].pc = "slug" =>
              /\ reqs[r].suffix - 1 <= Cardinality(OtherPosts(r))
              /\ reqs[r].status = 0
        /\ (reqs[r].kind \in {"create", "update"} /\ reqs[r].pc \in {"insert", "write"}
                /\ reqs[r].suffix > 0) =>
              /\ reqs[r].suffix <= Cardinality(OtherPosts(r)) + 1
              /\ reqs[r].snap.slug # <<>>
              /\ reqs[r].status = 0

\* a create request obtained its slug with one lookup more than there are
\* posts: every post holds one of the candidates tried before
C27_Witness ==
    \E r \in ReqIds :
        /\ reqs[r].kind = "create" /\ reqs[r].pc = "insert"
        /\ Cardinality(Live) >= 2
        /\ reqs[r].suffix = Cardinality(Live) + 1

---------------------------------------------------------------------------
(* C28: error responses of the create request *)

\* the create request r has left a page written by its own cascade
CreateLeftPage(r) == reqs[r].regen # {}

\* C28 (as claimed): when the create-post request responds with an error
\* (400 for a missing title, 500 for any failure, the image-association
\* step included), no post record has been persisted and no page has been
\* stored for it.
C28_ErrorMeansNothingPersisted ==
    \A r \in ReqIds :
      (reqs[r].kind = "create" /\ reqs[r].status \in {400, 500}) =>
          reqs[r].id \notin Live /\ ~CreateLeftPage(r)

---------------------------------------------------------------------------
(* C29: rejected comment submissions *)

\* the statuses of a rejected comment submission
RejectionStatuses == {400, 403, 404, 429}

\* C29: a step in which a comment submission is rejected (403 blacklisted,
\* 404 unknown post or parent, 400 empty author or content, 429 rate
\* limited) leaves the comments table and the page store unchanged and ends
\* the request there, with no regeneration dispatched.
C29_RejectionChangesNothing ==
    [][\A r \in ReqIds :
          (reqs'[r] # reqs[r] /\ reqs'[r].kind = "comment"
             /\ reqs'[r].status \in RejectionStatuses) =>
              /\ comments' = comments /\ nextCid' = nextCid
              /\ pages' = pages
              /\ reqs'[r].pc = "done" /\ reqs'[r].regen = {}]_vars

\* a submission for an existing post from an address that is not on the
\* blacklist was rejected with 404 or 429 while the table holds comments
C29_Witness ==
    \E r \in ReqIds :
        /\ reqs[r].kind = "comment" /\ reqs[r].status \in {404, 429}
        /\ reqs[r].id \in Live
        /\ ~isIpBlacklisted(reqs[r].upd.ip_address)
        /\ comments # NoComments
        /\ reqs[r].pc = "done" /\ reqs[r].regen = {}

---------------------------------------------------------------------------
(* C30: pages of deleted posts under concurrency *)

\* C30 (as claimed): under any interleaving of concurrent post mutations
\* and their cascades, once all cascades have completed the page store holds
\* no page of a post that has been deleted from the database.
C30_NoPageOfDeletedPost ==
    Quiet => \A k \in DOMAIN pages : pages[k].id \in Live

====
